---------------------------- MODULE Spec2Model ----------------------------
(***************************************************************************)
(* The sharing indexer of cozy-stack (model/sharing/indexer.go): a         *)
(* decorator over the VFS indexer that writes files and directories with   *)
(* a forced revision and revision chain while a pending context            *)
(* (bulkRevs) is set, together with the cursor operations that move the    *)
(* context along the chain (IncrementRevision, WillResolveConflict,        *)
(* StashRevision, UnstashRevision, CreateBogusPrevRev).                    *)
(*                                                                         *)
(* Every Go method is an operator from the indexer's fields and the        *)
(* call's inputs (arguments, random tokens, results of the collaborators)  *)
(* to an outcome: the new bulkRevs pointer, the returned value and the     *)
(* ordered list of effects on the collaborators (forced writes, calls to   *)
(* the wrapped indexer, SharedRef updates, realtime events).  One action   *)
(* per method applies it to one indexer.                                   *)
(*                                                                         *)
(* Strings are TLA+ strings: a revision is "<generation>-<id>", built as   *)
(* fmt.Sprintf("%d-%s", ...) builds it.                                    *)
(*                                                                         *)
(* Other parts of the stack have their own state machine: the rate         *)
(* limiter (package limits) with getCounter, the invitations of a sharing  *)
(* (Sharing.SendInvitations, Sharing.SendInvitationsToMembers) and the     *)
(* storage of OAuth states of the oidc package; where the code starts      *)
(* goroutines, they run step by step.                                      *)
(***************************************************************************)
EXTENDS Integers, Sequences, FiniteSets, TLC

VARIABLES
    local,    \* instance -> the revision and chain of its own document, when
              \* two instances are followed (Nil otherwise)
    ix,       \* indexer -> [bulkRevs, at, shared]: the fields of each sharingIndexer
    stash,    \* indexer -> the value its caller holds from the last StashRevision
    written,  \* the forced writes issued since the cursor was last moved, in order
    last,     \* the last call: indexer, method, arguments, context before, outcome
    counter,  \* limits: the kind of Counter getCounter returns ("mem", "redis")
    cleaning, \* limits: the keys the cleaner found expired and has not deleted yet
    calls,    \* limits: the calls of CheckRateLimitKey made so far
    configs,  \* limits: counter type -> its configuration (Prefix, Limit, Period)
    vals,     \* limits: key -> the counter of the key (value, expiry), Nil if none
    mu,       \* limits: the goroutine that holds memCounter.mu, 0 if none
    chk,      \* limits: goroutine -> its position in CheckRateLimitKey
    now,      \* limits: the time
    hist,     \* limits: key -> the calls of Increment since its counter was made,
              \* in the order in which the counter served them
    done,     \* limits: the call the last step completed, if any
    sharing,  \* invitations: the Sharing document in memory
    inv,      \* invitations: the position of SendInvitations and of its goroutines
    sent,     \* invitations: the shortcuts and mails sent, in order
    saved,    \* invitations: the documents given to couchdb.UpdateDoc, in order
    globalCounter,   \* limits: the Counter getCounter keeps, Nil before it is made
    globalCounterMu, \* limits: the goroutine holding the mutex of getCounter, or 0
    getter,   \* limits: the position of every goroutine in getCounter and
              \* what its last call returned
    made,     \* limits: the number of Counters made so far
    store,    \* oidc: reference -> the holder kept under it, Nil when none
    clock,    \* oidc: the current time
    issued,   \* oidc: reference -> the holder as Add stored it, for ever
    lookup    \* oidc: the most recent Add or Find and what it returned

\* the variables of the sharing indexer and of the rate limiter
indexerVars == <<local, ix, stash, written, last>>
limitVars == <<counter, cleaning, calls, configs, vals, mu, chk, now, hist, done>>
inviteVars == <<sharing, inv, sent, saved>>
getterVars == <<globalCounter, globalCounterMu, getter, made>>
oidcVars == <<store, clock, issued, lookup>>

vars == <<local, ix, stash, written, last, counter, cleaning, calls,
          configs, vals, mu, chk, now,
          hist, done, sharing, inv, sent, saved, globalCounter, globalCounterMu,
          getter, made, store, clock, issued, lookup>>

(***************************************************************************)
(* Bounds of the model.                                                    *)
(***************************************************************************)
\* forced writes issued during the processing of one change
MaxWrites == 2
\* highest generation IncrementRevision may reach
MaxStart == 4
\* longest chain the growing operations may build
MaxLen == 3
\* lowest generation StashRevision is called at
MinStart == 0
\* calls of CheckRateLimitKey that are made
MaxChecks == 2
\* latest time
MaxTime == 2
\* the latest time of the clock of the OAuth states
MaxClock == 5

(***************************************************************************)
(* Values.                                                                 *)
(***************************************************************************)
\* a nil pointer (bulkRevs, olddoc)
Nil == [nil |-> TRUE]

\* the value held by a caller that has no stash in hand
NoStash == "<none>"

\* ids of the revisions of the incoming documents, oldest first
Hashes == <<"aaa", "bbb", "ccc">>

\* what crypto.GenerateRandomBytes(16), hex encoded, may return: an id that
\* no incoming revision carries (no branch of the code reads its value)
RandomIDs == {"e1"}

\* every id a revision of the model can carry ("" is the stash of a failed
\* StashRevision, given back to UnstashRevision)
AllIDs == {Hashes[k] : k \in DOMAIN Hashes} \cup RandomIDs \cup {"xxx", ""}

\* generations a revision of the model can carry
Gens == 0 .. (MaxStart + MaxLen + 2)

\* fmt.Sprintf("%d-%s", n, id)
Sprintf(n, id) == ToString(n) \o "-" \o id

\* RevGeneration: the number before the first hyphen (ids hold no hyphen),
\* 0 when there is none
Revs == {Sprintf(g, id) : g \in Gens, id \in AllIDs}

GenOf == [rev \in Revs |-> CHOOSE g \in Gens : \E id \in AllIDs : rev = Sprintf(g, id)]

IDOf == [rev \in Revs |-> CHOOSE id \in AllIDs : \E g \in Gens : rev = Sprintf(g, id)]

RevGeneration(rev) == IF rev \in Revs THEN GenOf[rev] ELSE 0

\* the part of a revision after the first hyphen
RevID(rev) == IDOf[rev]

\* bulkRevs{Rev, Revisions: RevsStruct{Start, IDs}}
Ctx(rev, start, ids) ==
    [Rev |-> rev, Revisions |-> [Start |-> start, IDs |-> ids]]

Reverse(seq) == [k \in 1 .. Len(seq) |-> seq[Len(seq) + 1 - k]]

\* revsChainToStruct: a chain (oldest first) as a RevsStruct (newest first)
revsChainToStruct(chain) ==
    [Start |-> IF chain = <<>> THEN 0 ELSE RevGeneration(chain[Len(chain)]),
     IDs   |-> Reverse([k \in 1 .. Len(chain) |-> RevID(chain[k])])]

\* revsStructToChain: a RevsStruct as a chain of revisions, oldest first
revsStructToChain(revs) ==
    LET n == Len(revs.IDs) IN
    [k \in 1 .. n |-> Sprintf(revs.Start - (n - k), revs.IDs[n + 1 - k])]

\* MixupChainToResolveConflict is called by WillResolveConflict when the
\* generations of rev and of the last revision of chain differ; its code is
\* not in the source tree.  By the specification of the conflict resolver
\* (4.2, step 2) the side with the strictly higher generation wins outright
\* and its full chain is adopted unchanged: no revision is manufactured.
MixupChainToResolveConflict(rev, chain) == chain

(***************************************************************************)
(* The cursor operations, on the bulkRevs pointer b.                       *)
(***************************************************************************)
\* variant: Start is not raised
IncrementRevisionKeepsStart(b, generated) ==
    IF b = Nil THEN b
    ELSE LET start == b.Revisions.Start + 1 IN
         Ctx(Sprintf(start, generated), b.Revisions.Start,
             <<generated>> \o b.Revisions.IDs)

\* IncrementRevision, generated being the random id it draws
IncrementRevision(b, generated) ==
    IF b = Nil THEN b
    ELSE LET start == b.Revisions.Start + 1 IN
         Ctx(Sprintf(start, generated), start, <<generated>> \o b.Revisions.IDs)

\* the outcome of a cursor operation: the new pointer and the returned value
\* ("" for a method that returns nothing, "panic" for a run-time panic)
CursorOut(b, ret) == [b |-> b, ret |-> ret]

\* variant: the target revision is not set to the last revision of the chain
WillResolveConflictKeepsRev(b, rev, chain) ==
    IF chain = <<>> THEN CursorOut(b, "panic")
    ELSE LET lastRev == chain[Len(chain)] IN
         IF RevGeneration(lastRev) = RevGeneration(rev) THEN CursorOut(Nil, "")
         ELSE IF b = Nil THEN CursorOut(b, "panic")
         ELSE LET altered == MixupChainToResolveConflict(rev, chain) IN
              CursorOut([Rev |-> b.Rev,
                         Revisions |-> revsChainToStruct(altered)], "")

\* variant: the test on the generations is inverted
WillResolveConflictInverted(b, rev, chain) ==
    IF chain = <<>> THEN CursorOut(b, "panic")
    ELSE LET lastRev == chain[Len(chain)] IN
         IF RevGeneration(lastRev) # RevGeneration(rev) THEN CursorOut(Nil, "")
         ELSE IF b = Nil THEN CursorOut(b, "panic")
         ELSE LET altered == MixupChainToResolveConflict(rev, chain) IN
              CursorOut([Rev |-> lastRev,
                         Revisions |-> revsChainToStruct(altered)], "")

\* variant: the context is not dropped when the generations are equal
WillResolveConflictKeeps(b, rev, chain) ==
    IF chain = <<>> THEN CursorOut(b, "panic")
    ELSE LET lastRev == chain[Len(chain)] IN
         IF RevGeneration(lastRev) = RevGeneration(rev) THEN CursorOut(b, "")
         ELSE IF b = Nil THEN CursorOut(b, "panic")
         ELSE LET altered == MixupChainToResolveConflict(rev, chain) IN
              CursorOut([Rev |-> lastRev,
                         Revisions |-> revsChainToStruct(altered)], "")

\* WillResolveConflict; it indexes the chain and dereferences bulkRevs
\* without a check
WillResolveConflict(b, rev, chain) ==
    IF chain = <<>> THEN CursorOut(b, "panic")
    ELSE LET lastRev == chain[Len(chain)] IN
         IF RevGeneration(lastRev) = RevGeneration(rev)
         THEN CursorOut(Nil, "")
         ELSE IF b = Nil THEN CursorOut(b, "panic")
         ELSE LET altered == MixupChainToResolveConflict(rev, chain) IN
              CursorOut([Rev |-> lastRev,
                         Revisions |-> revsChainToStruct(altered)], "")

\* the least number of chain entries StashRevision needs
minRevs(newFile) == IF newFile THEN 2 ELSE 3

\* variant: Start is not lowered
StashRevisionKeepsStart(b, newFile) ==
    IF b = Nil \/ Len(b.Revisions.IDs) < minRevs(newFile) THEN CursorOut(Nil, "")
    ELSE LET ids == Tail(b.Revisions.IDs)
             start == b.Revisions.Start
         IN  CursorOut(Ctx(Sprintf(start, ids[1]), start, ids), b.Revisions.IDs[1])

\* variant: the entry returned is the new head, not the one removed
StashRevisionReturnsHead(b, newFile) ==
    IF b = Nil \/ Len(b.Revisions.IDs) < minRevs(newFile) THEN CursorOut(Nil, "")
    ELSE LET ids == Tail(b.Revisions.IDs)
             start == b.Revisions.Start - 1
         IN  CursorOut(Ctx(Sprintf(start, ids[1]), start, ids), ids[1])

\* variant: the context is kept when the chain is too short
StashRevisionKeepsContext(b, newFile) ==
    IF b = Nil \/ Len(b.Revisions.IDs) < minRevs(newFile) THEN CursorOut(b, "")
    ELSE LET ids == Tail(b.Revisions.IDs)
             start == b.Revisions.Start - 1
         IN  CursorOut(Ctx(Sprintf(start, ids[1]), start, ids), b.Revisions.IDs[1])

\* variant: the target revision is not set back
UnstashRevisionKeepsRev(b, stashed) ==
    IF b = Nil THEN b
    ELSE [b EXCEPT !.Revisions.Start = @ + 1,
                   !.Revisions.IDs = <<stashed>> \o @]

\* StashRevision
StashRevision(b, newFile) ==
    IF b = Nil \/ Len(b.Revisions.IDs) < minRevs(newFile)
    THEN CursorOut(Nil, "")
    ELSE LET ids   == Tail(b.Revisions.IDs)
             start == b.Revisions.Start - 1
         IN  CursorOut(Ctx(Sprintf(start, ids[1]), start, ids), b.Revisions.IDs[1])

\* UnstashRevision
UnstashRevision(b, stashed) ==
    IF b = Nil THEN b
    ELSE LET start == b.Revisions.Start + 1 IN
         Ctx(Sprintf(start, stashed), start, <<stashed>> \o b.Revisions.IDs)

\* variant: the bogus entry is put at the head of the chain
CreateBogusPrevRevAtHead(b, bogus) ==
    IF b = Nil THEN b
    ELSE [b EXCEPT !.Revisions.IDs = <<bogus>> \o @]

\* CreateBogusPrevRev, bogus being the random id it draws
CreateBogusPrevRev(b, bogus) ==
    IF b = Nil THEN b
    ELSE [b EXCEPT !.Revisions.IDs = Append(@, bogus)]

(***************************************************************************)
(* The effects of a call on the collaborators, in the order made.          *)
(***************************************************************************)
\* the error values
NoErr == "nil"
ErrInternalServerError == "ErrInternalServerError"

\* vfs.FileDoc and vfs.DirDoc, as far as the indexer reads them
FileDoc(id, trashed) == [DocID |-> id, Type |-> "file", Trashed |-> trashed, DocRev |-> ""]
DirDoc(id) == [DocID |-> id, Type |-> "directory", Trashed |-> FALSE, DocRev |-> ""]

\* doc.SetRev(rev)
SetRev(doc, rev) == [doc EXCEPT !.DocRev = rev]

\* couchdb.BulkForceUpdateDocs(db, consts.Files, docs) with the one document
\* built from doc, its _rev and _revisions taken from b; err is what it returns
ForcedWrite(doc, b, err) ==
    [k |-> "write", id |-> doc.DocID, type |-> doc.Type, trashed |-> doc.Trashed,
     rev |-> b.Rev, revisions |-> b.Revisions, err |-> err]

\* s.indexer.<op>(args), r being what the wrapped indexer returns
IndexerCall(op, args, r) == [k |-> "call", op |-> op, args |-> args, ret |-> r]

\* UpdateFileShared(s.db, ref, revs), err being what it returns
SharedUpdate(ref, revs, err) == [k |-> "shared", ref |-> ref, revisions |-> revs, err |-> err]

\* couchdb.RTEvent(s.db, verb, doc, olddoc)
RTEvent(verb, doc, olddoc) == [k |-> "event", verb |-> verb, doc |-> doc, olddoc |-> olddoc]

\* the outcome of a method: the bulkRevs pointer it leaves, what it returns
\* ("panic" for a run-time panic), and its effects in order
Out(b, ret, effects) == [b |-> b, ret |-> ret, effects |-> effects]

\* the inputs of a call besides its arguments: the id the random source
\* gives, the first collaborator call that fails ("none", "path", "write",
\* "shared", "oldpath"), and what the wrapped indexer returns
Inputs(rands, fails, rs) == [rand : rands, fail : fails, r : rs]

\* what the wrapped indexer may return
Results == {NoErr, "errIndexer"}

\* the inputs of a call that reaches the wrapped indexer only
Proxying == Inputs({""}, {"none"}, Results)

ErrOf(in, step, err) == IF in.fail = step THEN err ELSE NoErr

\* variant: the result of the wrapped indexer is dropped
DelegateSwallows(s, op, args, in) ==
    Out(s.bulkRevs, NoErr, <<IndexerCall(op, args, in.r)>>)

\* a method that is proxied to the wrapped indexer
Delegate(s, op, args, in) == Out(s.bulkRevs, in.r, <<IndexerCall(op, args, in.r)>>)

\* variant: the wrapped indexer is called before the error is returned
RefuseAfterCall(s) ==
    Out(s.bulkRevs, ErrInternalServerError, <<IndexerCall("", <<>>, NoErr)>>)

\* a method that is refused
Refuse(s) == Out(s.bulkRevs, ErrInternalServerError, <<>>)

(***************************************************************************)
(* The methods of sharingIndexer, on its fields s = [bulkRevs, shared].    *)
(***************************************************************************)
\* variant: a write that fails is made a second time
bulkForceUpdateDocRetries(s, doc, in) ==
    IF s.bulkRevs = Nil THEN [ret |-> "panic", doc |-> doc, effects |-> <<>>]
    ELSE LET err == ErrOf(in, "write", "errCouch")
             w   == <<ForcedWrite(doc, s.bulkRevs, err)>>
         IN  [ret     |-> err,
              doc     |-> SetRev(doc, s.bulkRevs.Rev),
              effects |-> IF err = NoErr THEN w ELSE w \o w]

\* bulkForceUpdateDoc: the document is given the revision, then written
\* with it; s.bulkRevs is dereferenced without a check
bulkForceUpdateDoc(s, doc, in) ==
    IF s.bulkRevs = Nil THEN [ret |-> "panic", doc |-> doc, effects |-> <<>>]
    ELSE LET err == ErrOf(in, "write", "errCouch") IN
         [ret     |-> err,
          doc     |-> SetRev(doc, s.bulkRevs.Rev),
          effects |-> <<ForcedWrite(doc, s.bulkRevs, err)>>]

\* variant: the document that is not trashed is written before its path is
\* computed
CreateNamedFileDocWritesFirst(s, doc, in) ==
    IF s.bulkRevs = Nil THEN Delegate(s, "CreateNamedFileDoc", <<doc>>, in)
    ELSE IF ~doc.Trashed THEN
        LET w == bulkForceUpdateDoc(s, doc, in) IN
        IF w.ret # NoErr THEN Out(s.bulkRevs, w.ret, w.effects)
        ELSE IF in.fail = "path" THEN Out(s.bulkRevs, "errPath", w.effects)
        ELSE Out(s.bulkRevs, NoErr,
                 w.effects \o <<RTEvent("created", w.doc, Nil)>>)
    ELSE LET b1 == IF Len(s.bulkRevs.Revisions.IDs) = 1
                   THEN CreateBogusPrevRev(s.bulkRevs, in.rand)
                   ELSE s.bulkRevs
             st == StashRevision(b1, TRUE)
             w  == bulkForceUpdateDoc([s EXCEPT !.bulkRevs = st.b], doc, in)
         IN  IF w.ret = "panic" THEN Out(st.b, "panic", w.effects)
             ELSE Out(UnstashRevision(st.b, st.ret), w.ret, w.effects)

\* CreateNamedFileDoc.  doc.Path(s) is the path computation of the VFS: it
\* fails or not, as the input says
CreateNamedFileDoc(s, doc, in) ==
    IF s.bulkRevs = Nil THEN Delegate(s, "CreateNamedFileDoc", <<doc>>, in)
    ELSE IF ~doc.Trashed THEN
        IF in.fail = "path" THEN Out(s.bulkRevs, "errPath", <<>>)
        ELSE LET w == bulkForceUpdateDoc(s, doc, in) IN
             IF w.ret # NoErr THEN Out(s.bulkRevs, w.ret, w.effects)
             ELSE Out(s.bulkRevs, NoErr,
                      w.effects \o <<RTEvent("created", w.doc, Nil)>>)
    ELSE LET b1 == IF Len(s.bulkRevs.Revisions.IDs) = 1
                   THEN CreateBogusPrevRev(s.bulkRevs, in.rand)
                   ELSE s.bulkRevs
             st == StashRevision(b1, TRUE)
             w  == bulkForceUpdateDoc([s EXCEPT !.bulkRevs = st.b], doc, in)
         IN  IF w.ret = "panic" THEN Out(st.b, "panic", w.effects)
             ELSE Out(UnstashRevision(st.b, st.ret), w.ret, w.effects)

\* UpdateFileShared is called with the SharedRef pointer; what it does with a
\* nil one is its own business, the caller passes it on unchecked
SharedFailure(s, in) ==
    IF in.fail = "shared" THEN IF s.shared THEN "errShared" ELSE "panic"
    ELSE NoErr

\* variant: the entry written is taken off the chain
UpdateFileDocAdvances(s, olddoc, doc, in) ==
    IF s.bulkRevs = Nil THEN Delegate(s, "UpdateFileDoc", <<olddoc, doc>>, in)
    ELSE LET w   == bulkForceUpdateDoc(s, doc, in)
             ref == IF s.shared
                    THEN <<SharedUpdate(s.shared, s.bulkRevs.Revisions,
                                        ErrOf(in, "shared", "errShared"))>>
                    ELSE <<>>
         IN  IF w.ret # NoErr THEN Out(s.bulkRevs, w.ret, w.effects)
             ELSE IF s.shared /\ in.fail = "shared"
                  THEN Out(s.bulkRevs, "errShared", w.effects \o ref)
             ELSE IF in.fail = "path"
                  THEN Out(s.bulkRevs, "errPath", w.effects \o ref)
             ELSE IF olddoc # Nil /\ in.fail = "oldpath"
                  THEN Out(s.bulkRevs, "errPath", w.effects \o ref)
             ELSE Out(IF Len(s.bulkRevs.Revisions.IDs) >= 2
                  THEN StashRevision(s.bulkRevs, TRUE).b ELSE s.bulkRevs, NoErr,
                      w.effects \o ref \o <<RTEvent("updated", w.doc, olddoc)>>)

\* variant: UpdateFileShared is never called
UpdateFileDocSkipsShared(s, olddoc, doc, in) ==
    IF s.bulkRevs = Nil THEN Delegate(s, "UpdateFileDoc", <<olddoc, doc>>, in)
    ELSE LET w   == bulkForceUpdateDoc(s, doc, in)
             ref == <<>>
         IN  IF w.ret # NoErr THEN Out(s.bulkRevs, w.ret, w.effects)
             ELSE IF FALSE
                  THEN Out(s.bulkRevs, "errShared", w.effects \o ref)
             ELSE IF in.fail = "path"
                  THEN Out(s.bulkRevs, "errPath", w.effects \o ref)
             ELSE IF olddoc # Nil /\ in.fail = "oldpath"
                  THEN Out(s.bulkRevs, "errPath", w.effects \o ref)
             ELSE Out(s.bulkRevs, NoErr,
                      w.effects \o ref \o <<RTEvent("updated", w.doc, olddoc)>>)

\* variant: the error of UpdateFileShared is dropped
UpdateFileDocIgnoresShared(s, olddoc, doc, in) ==
    IF s.bulkRevs = Nil THEN Delegate(s, "UpdateFileDoc", <<olddoc, doc>>, in)
    ELSE LET w   == bulkForceUpdateDoc(s, doc, in)
             ref == IF s.shared
                    THEN <<SharedUpdate(s.shared, s.bulkRevs.Revisions,
                                        ErrOf(in, "shared", "errShared"))>>
                    ELSE <<>>
         IN  IF w.ret # NoErr THEN Out(s.bulkRevs, w.ret, w.effects)
             ELSE IF FALSE
                  THEN Out(s.bulkRevs, "errShared", w.effects \o ref)
             ELSE IF in.fail = "path"
                  THEN Out(s.bulkRevs, "errPath", w.effects \o ref)
             ELSE IF olddoc # Nil /\ in.fail = "oldpath"
                  THEN Out(s.bulkRevs, "errPath", w.effects \o ref)
             ELSE Out(s.bulkRevs, NoErr,
                      w.effects \o ref \o <<RTEvent("updated", w.doc, olddoc)>>)

\* UpdateFileDoc
UpdateFileDoc(s, olddoc, doc, in) ==
    IF s.bulkRevs = Nil THEN Delegate(s, "UpdateFileDoc", <<olddoc, doc>>, in)
    ELSE LET w   == bulkForceUpdateDoc(s, doc, in)
             ref == IF s.shared
                    THEN <<SharedUpdate(s.shared, s.bulkRevs.Revisions,
                                        ErrOf(in, "shared", "errShared"))>>
                    ELSE <<>>
         IN  IF w.ret # NoErr THEN Out(s.bulkRevs, w.ret, w.effects)
             ELSE IF s.shared /\ in.fail = "shared"
                  THEN Out(s.bulkRevs, "errShared", w.effects \o ref)
             ELSE IF in.fail = "path"
                  THEN Out(s.bulkRevs, "errPath", w.effects \o ref)
             ELSE IF olddoc # Nil /\ in.fail = "oldpath"
                  THEN Out(s.bulkRevs, "errPath", w.effects \o ref)
             ELSE Out(s.bulkRevs, NoErr,
                      w.effects \o ref \o <<RTEvent("updated", w.doc, olddoc)>>)

\* variant: the event is sent before UpdateFileShared is called
UpdateDirDocEventFirst(s, olddoc, doc, in) ==
    IF s.bulkRevs = Nil THEN Delegate(s, "UpdateDirDoc", <<olddoc, doc>>, in)
    ELSE LET err  == ErrOf(in, "write", "errCouch")
             w    == <<ForcedWrite(doc, s.bulkRevs, err)>>
             serr == SharedFailure(s, in)
             ref  == <<SharedUpdate(s.shared, s.bulkRevs.Revisions, serr)>>
             new  == SetRev(doc, s.bulkRevs.Rev)
         IN  IF err # NoErr THEN Out(s.bulkRevs, err, w)
             ELSE IF serr # NoErr
                  THEN Out(s.bulkRevs, serr,
                           w \o <<RTEvent("updated", new, olddoc)>> \o ref)
             ELSE Out(s.bulkRevs, NoErr,
                      w \o <<RTEvent("updated", new, olddoc)>> \o ref)

\* variant: the event is sent whatever the write returned
UpdateDirDocEventOnFailure(s, olddoc, doc, in) ==
    IF s.bulkRevs = Nil THEN Delegate(s, "UpdateDirDoc", <<olddoc, doc>>, in)
    ELSE LET err  == ErrOf(in, "write", "errCouch")
             w    == <<ForcedWrite(doc, s.bulkRevs, err)>>
             serr == SharedFailure(s, in)
             ref  == <<SharedUpdate(s.shared, s.bulkRevs.Revisions, serr)>>
             new  == SetRev(doc, s.bulkRevs.Rev)
         IN  IF err # NoErr
             THEN Out(s.bulkRevs, err, w \o <<RTEvent("updated", new, olddoc)>>)
             ELSE IF serr # NoErr THEN Out(s.bulkRevs, serr, w \o ref)
             ELSE Out(s.bulkRevs, NoErr,
                      w \o ref \o <<RTEvent("updated", new, olddoc)>>)

\* UpdateDirDoc
UpdateDirDoc(s, olddoc, doc, in) ==
    IF s.bulkRevs = Nil THEN Delegate(s, "UpdateDirDoc", <<olddoc, doc>>, in)
    ELSE LET err  == ErrOf(in, "write", "errCouch")
             w    == <<ForcedWrite(doc, s.bulkRevs, err)>>
             serr == SharedFailure(s, in)
             ref  == <<SharedUpdate(s.shared, s.bulkRevs.Revisions, serr)>>
             new  == SetRev(doc, s.bulkRevs.Rev)
         IN  IF err # NoErr THEN Out(s.bulkRevs, err, w)
             ELSE IF serr # NoErr THEN Out(s.bulkRevs, serr, w \o ref)
             ELSE Out(s.bulkRevs, NoErr,
                      w \o ref \o <<RTEvent("updated", new, olddoc)>>)

\* CreateNamedDirDoc
CreateNamedDirDoc(s, doc, in) == UpdateDirDoc(s, Nil, doc, in)

\* variant: the deletion of a directory is proxied
DeleteDirDocProxied(s, doc) ==
    Out(s.bulkRevs, NoErr, <<IndexerCall("DeleteDirDoc", <<doc>>, NoErr)>>)

\* DeleteFileDoc
DeleteFileDoc(s, doc, in) == Delegate(s, "DeleteFileDoc", <<doc>>, in)

\* the methods that return ErrInternalServerError
InitIndex(s) == Refuse(s)
CreateFileDoc(s, doc) == Refuse(s)
CreateDirDoc(s, doc) == Refuse(s)
DeleteDirDoc(s, doc) == Refuse(s)
DeleteDirDocAndContent(s, doc, onlyContent) == Refuse(s)
BatchDelete(s, docs) == Refuse(s)
CheckIndexIntegrity(s) == Refuse(s)
CheckTreeIntegrity(s) == Refuse(s)
BuildTree(s) == Refuse(s)

\* the methods that are proxied whatever bulkRevs is: the usage statistics,
\* the lookups, the directory listings and the operations on versions
ProxiedOps ==
    {"DiskUsage", "FilesUsage", "VersionsUsage", "TrashUsage",
     "DirByID", "DirByPath", "FileByID", "FileByPath", "FilePath",
     "DirOrFileByID", "DirOrFileByPath",
     "DirIterator", "DirBatch", "DirLength", "DirChildExists",
     "CreateVersion", "DeleteVersion", "BatchDeleteVersions"}

\* variant: with a context the lookups are refused
ProxiedRefusesForced(s, op, args, in) ==
    IF s.bulkRevs = Nil THEN Delegate(s, op, args, in) ELSE Refuse(s)

Proxied(s, op, args, in) == Delegate(s, op, args, in)

(***************************************************************************)
(* The states of the OAuth flow kept in memory (memStateStorage of the     *)
(* oidc package).  The clock counts in units of five minutes.              *)
(***************************************************************************)
\* const stateTTL = 15 * time.Minute
stateTTL == 3

\* the references Add may draw (16 random bytes, in hexadecimal): one that
\* was drawn is not drawn again
Refs == {"r1", "r2", "r3"}

\* stateHolder, as far as the storage reads it
StateHolder(cs, exp) == [ClientState |-> cs, ExpiresAt |-> exp]
ClientStates == {"s1", "s2"}

\* nothing was added or looked for yet
NoFind == [op |-> "", ref |-> "", ret |-> Nil]

\* the storage when it is made: &memStateStorage{}
NoStates ==
    /\ store = [r \in Refs |-> Nil]
    /\ clock = 0
    /\ issued = [r \in Refs |-> Nil]
    /\ lookup = NoFind

\* memStateStorage.Add(state) when ref is drawn, at time t: the expiry is
\* written in the holder, which is kept under ref
Add(st, state, ref, t) ==
    [st EXCEPT ![ref] = [state EXCEPT !.ExpiresAt = t + stateTTL]]

\* variant: the expiry is not looked at
FindIgnoresExpiry(st, ref, t) ==
    IF st[ref] = Nil THEN [store |-> st, ret |-> Nil]
    ELSE [store |-> st, ret |-> st[ref]]

\* memStateStorage.Find(ref) at time t: the map after it and what it returns
Find(st, ref, t) ==
    IF st[ref] = Nil THEN [store |-> st, ret |-> Nil]
    ELSE IF st[ref].ExpiresAt < t
         THEN [store |-> [st EXCEPT ![ref] = Nil], ret |-> Nil]
         ELSE [store |-> st, ret |-> st[ref]]

(***************************************************************************)
(* The invitations of a sharing (Sharing.SendInvitations): the goroutines  *)
(* of the errgroup, one per member to invite, run step by step.            *)
(***************************************************************************)
ErrInvalidSharing == "ErrInvalidSharing"
ErrInvitationNotSent == "ErrInvitationNotSent"

MemberStatusOwner == "owner"
MemberStatusMailNotSent == "mail-not-sent"
MemberStatusPendingInvitation == "pending"
MemberStatusReady == "ready"

BitwardenOrganizations == "com.bitwarden.organizations"
Files == "io.cozy.files"

\* Member, as far as SendInvitations reads it
Member(status, instance, email) ==
    [Status |-> status, Instance |-> instance, Email |-> email]

\* the recipients of a sharing: to be invited or ready, with or without the
\* URL of their instance and an e-mail address
Recipients ==
    {Member(st, i, e) : st \in {MemberStatusMailNotSent, MemberStatusReady},
                        i \in {"", "https://bob.cozy"}, e \in {"", "bob@cozy"}}

\* the sharings SendInvitations is called on: the owner and two recipients,
\* with one or two credentials, on the instance of the owner or not
Sharings ==
    [Owner       : BOOLEAN,
     Members     : {<<Member(MemberStatusOwner, "", "alice@cozy"), r1, r2>> :
                        r1 \in Recipients, r2 \in Recipients},
     Credentials : {<<[State |-> "s1"]>>, <<[State |-> "s1"], [State |-> "s2"]>>},
     Rules       : {<<[DocType |-> d]>> : d \in {Files, BitwardenOrganizations}}]

\* SendInvitations has not been called
NotCalled == [pc |-> "idle", pre |-> Nil, ret |-> "", go |-> <<>>, errg |-> NoErr]

\* no sharing is followed
NoInvitation ==
    /\ sharing = Nil
    /\ inv = NotCalled
    /\ sent = <<>>
    /\ saved = <<>>

\* variant: only the owner is checked
ValidOwnerOnly(s) == s.Owner

\* the two checks SendInvitations makes first
Valid(s) == s.Owner /\ Len(s.Members) = Len(s.Credentials) + 1

\* SendInvitations up to g.Wait(): the checks, then one goroutine for every
\* member but the first whose status is mail-not-sent; the state of its
\* credentials is read before the goroutine is started
SendInvitations ==
    /\ inv.pc = "idle"
    /\ sharing # Nil
    /\ IF ~Valid(sharing)
       THEN inv' = [inv EXCEPT !.pc = "returned", !.pre = sharing,
                               !.ret = ErrInvalidSharing]
       ELSE IF \E k \in 2 .. Len(sharing.Members) :
                   /\ sharing.Members[k].Status = MemberStatusMailNotSent
                   /\ k - 1 \notin DOMAIN sharing.Credentials
            THEN inv' = [inv EXCEPT !.pc = "returned", !.pre = sharing,
                                    !.ret = "panic"]
            ELSE inv' = [inv EXCEPT
                            !.pc = "sending", !.pre = sharing,
                            !.go = [k \in DOMAIN sharing.Members |->
                                       IF k = 1 \/ sharing.Members[k].Status
                                                       # MemberStatusMailNotSent
                                       THEN "skip" ELSE "shortcut"]]
    /\ UNCHANGED <<sharing, sent, saved, indexerVars, limitVars, getterVars, oidcVars>>

\* the goroutine of member k returns err to the errgroup, which keeps the
\* first error it gets
GoReturn(k, err) ==
    [inv EXCEPT !.go[k] = "done",
                !.errg = IF @ = NoErr THEN err ELSE @]

\* the goroutine of member k: the shortcut, when the member has an instance
\* and the sharing is not one of bitwarden
GoShortcut(k) ==
    /\ inv.pc = "sending"
    /\ inv.go[k] = "shortcut"
    /\ IF /\ sharing.Members[k].Instance # ""
          /\ sharing.Rules[1].DocType # BitwardenOrganizations
       THEN \E err \in {NoErr, "errShortcut"} :
               /\ sent' = Append(sent, [to |-> k, by |-> "shortcut", err |-> err])
               /\ IF err = NoErr
                  THEN /\ sharing' = [sharing EXCEPT !.Members[k].Status =
                                         MemberStatusPendingInvitation]
                       /\ inv' = GoReturn(k, NoErr)
                  ELSE /\ inv' = [inv EXCEPT !.go[k] = "mail"]
                       /\ UNCHANGED sharing
       ELSE /\ inv' = [inv EXCEPT !.go[k] = "mail"]
            /\ UNCHANGED <<sharing, sent>>
    /\ UNCHANGED <<saved, indexerVars, limitVars, getterVars, oidcVars>>

\* the goroutine of member k: the mail
GoMail(k) ==
    /\ inv.pc = "sending"
    /\ inv.go[k] = "mail"
    /\ IF sharing.Members[k].Email = ""
       THEN /\ inv' = GoReturn(k, ErrInvitationNotSent)
            /\ UNCHANGED <<sharing, sent>>
       ELSE \E err \in {NoErr, "errMail"} :
               /\ sent' = Append(sent, [to |-> k, by |-> "mail", err |-> err])
               /\ IF err = NoErr
                  THEN /\ sharing' = [sharing EXCEPT !.Members[k].Status =
                                         MemberStatusPendingInvitation]
                       /\ inv' = GoReturn(k, NoErr)
                  ELSE /\ inv' = GoReturn(k, ErrInvitationNotSent)
                       /\ UNCHANGED sharing
    /\ UNCHANGED <<saved, indexerVars, limitVars, getterVars, oidcVars>>

\* variant: the document is saved only when every invitation was sent
WaitAndSaveOnSuccess ==
    /\ inv.pc = "sending"
    /\ \A k \in DOMAIN inv.go : inv.go[k] \in {"skip", "done"}
    /\ IF inv.errg # NoErr
       THEN /\ inv' = [inv EXCEPT !.pc = "returned", !.ret = inv.errg]
            /\ UNCHANGED saved
       ELSE \E err \in {NoErr, "errCouch"} :
               /\ saved' = Append(saved, [doc |-> sharing, err |-> err])
               /\ inv' = [inv EXCEPT !.pc = "returned", !.ret = err]
    /\ UNCHANGED <<sharing, sent, indexerVars, limitVars, getterVars, oidcVars>>

\* g.Wait() returns when every goroutine has; then couchdb.UpdateDoc and the
\* return
WaitAndSave ==
    /\ inv.pc = "sending"
    /\ \A k \in DOMAIN inv.go : inv.go[k] \in {"skip", "done"}
    /\ \E err \in {NoErr, "errCouch"} :
          /\ saved' = Append(saved, [doc |-> sharing, err |-> err])
          /\ inv' = [inv EXCEPT !.pc = "returned",
                                !.ret = IF err # NoErr THEN err ELSE inv.errg]
    /\ UNCHANGED <<sharing, sent, indexerVars, limitVars, getterVars, oidcVars>>

(***************************************************************************)
(* The invitations a recipient sends to their contacts                     *)
(* (Sharing.SendInvitationsToMembers), one member of the list at a step.   *)
(***************************************************************************)
\* the contacts of the recipient: to be invited or ready, with or without
\* the URL of their instance and an e-mail address
Bobs == {Member(st, i, e) :
            st \in {MemberStatusMailNotSent, MemberStatusReady},
            i \in {"", "https://bob.cozy"}, e \in {"", "bob@cozy"}}
Carols == {Member(st, i, e) :
              st \in {MemberStatusMailNotSent, MemberStatusReady},
              i \in {"", "https://carol.cozy"}, e \in {"", "carol@cozy"}}

\* the sharings of a recipient with two members added, who are the members
\* given to SendInvitationsToMembers
OpenSharings ==
    [Owner       : {FALSE},
     Members     : {<<Member(MemberStatusOwner, "https://alice.cozy", "alice@cozy"), b, c>> :
                        b \in Bobs, c \in Carols},
     Credentials : {<<>>},
     Rules       : {<<[DocType |-> Files]>>}]

\* the member of s that the loop over s.Members finds for m: the first one
\* after the owner with the address of m (or its instance when m has no
\* address) whose status is mail-not-sent; 0 when there is none
FoundFor(s, m) ==
    LET is == {i \in 2 .. Len(s.Members) :
                  /\ IF m.Email = "" THEN m.Instance = s.Members[i].Instance
                     ELSE m.Email = s.Members[i].Email
                  /\ s.Members[i].Status = MemberStatusMailNotSent}
    IN  IF is = {} THEN 0 ELSE CHOOSE i \in is : \A j \in is : i <= j

\* what SendShortcut and SendMail may return for m
ShortcutResults(m) == IF m.Instance = "" THEN {"none"} ELSE {NoErr, "errShortcut"}
MailResults(m) == IF m.Email = "" THEN {"none"} ELSE {NoErr, "errMail"}

\* one turn of the loop of SendInvitationsToMembers, for member number n of
\* the list, m, SendShortcut returning serr and SendMail merr when they are
\* called: the sharing after it, the sends made, and the error returned from
\* inside the loop (NoErr when the loop goes on)
InviteMember(s, n, m, serr, merr) ==
    LET short == IF m.Instance # ""
                 THEN <<[to |-> n, by |-> "shortcut", err |-> serr]>> ELSE <<>>
        isSent == m.Instance # "" /\ serr # NoErr
        mail  == <<[to |-> n, by |-> "mail", err |-> merr]>>
        i     == FoundFor(s, m)
        after == IF i = 0 THEN s
                 ELSE [s EXCEPT !.Members[i].Status = MemberStatusPendingInvitation]
    IN  IF isSent THEN [s |-> after, sends |-> short, ret |-> NoErr]
        ELSE IF m.Email = ""
             THEN [s |-> s, sends |-> short, ret |-> ErrInvitationNotSent]
        ELSE IF merr # NoErr
             THEN [s |-> s, sends |-> short \o mail, ret |-> ErrInvitationNotSent]
        ELSE [s |-> after, sends |-> short \o mail, ret |-> NoErr]

\* SendInvitationsToMembers is called with the members added
SendInvitationsToMembers ==
    /\ inv.pc = "idle"
    /\ sharing # Nil
    /\ inv' = [inv EXCEPT
                  !.pc = "inviting", !.pre = sharing,
                  !.go = [n \in 1 .. 2 |-> [m |-> sharing.Members[n + 1],
                                            at |-> "todo"]]]
    /\ UNCHANGED <<sharing, sent, saved, indexerVars, limitVars, getterVars,
                   oidcVars>>

\* the next turn of the loop
InviteNext ==
    /\ inv.pc = "inviting"
    /\ \E n \in DOMAIN inv.go :
          /\ inv.go[n].at = "todo"
          /\ \A j \in 1 .. (n - 1) : inv.go[j].at = "done"
          /\ \E serr \in ShortcutResults(inv.go[n].m),
                merr \in MailResults(inv.go[n].m) :
                LET out == InviteMember(sharing, n, inv.go[n].m, serr, merr) IN
                /\ sharing' = out.s
                /\ sent' = sent \o out.sends
                /\ inv' = IF out.ret = NoErr
                          THEN [inv EXCEPT !.go[n].at = "done"]
                          ELSE [inv EXCEPT !.go[n].at = "failed",
                                           !.pc = "returned", !.ret = out.ret]
    /\ UNCHANGED <<saved, indexerVars, limitVars, getterVars, oidcVars>>

\* after the loop: return couchdb.UpdateDoc(inst, s)
SaveMembers ==
    /\ inv.pc = "inviting"
    /\ \A n \in DOMAIN inv.go : inv.go[n].at = "done"
    /\ \E err \in {NoErr, "errCouch"} :
          /\ saved' = Append(saved, [doc |-> sharing, err |-> err])
          /\ inv' = [inv EXCEPT !.pc = "returned", !.ret = err]
    /\ UNCHANGED <<sharing, sent, indexerVars, limitVars, getterVars, oidcVars>>

(***************************************************************************)
(* The rate limiter (package limits): CheckRateLimitKey and ResetCounter   *)
(* over the Counter that getCounter returns, the in-memory one             *)
(* (memCounter, with its mutex and its cleaner) or the one kept in redis.  *)
(* The goroutines that check run CheckRateLimitKey step by step.           *)
(***************************************************************************)
ErrRateLimitReached == "Rate limit reached"
ErrRateLimitExceeded == "Rate limit exceeded"

\* the counter types followed, and the slice configs as the package loads
\* it: both types have a period of one hour, which is the unit of time
AuthType == "AuthType"
SendHintByMail == "SendHintByMail"
CounterTypes == {AuthType, SendHintByMail}

configsAtLoad ==
    [ct \in CounterTypes |->
        IF ct = AuthType THEN [Prefix |-> "auth", Limit |-> 1000, Period |-> 1]
        ELSE [Prefix |-> "send-hint", Limit |-> 2, Period |-> 1]]

\* the calls of SetMaximumLimit that are made, each the type and its new
\* limit: the limit of AuthType is brought to 0
LimitChanges == {<<AuthType, 0>>}

\* GetMaximumLimit
GetMaximumLimit(ct) == configs[ct].Limit

\* the counters that are checked: the type and the instance (p.DomainName())
Subjects == {<<AuthType, "alice.cozy">>, <<SendHintByMail, "bob.cozy">>}

\* key := cfg.Prefix + ":" + customKey; no prefix is ever changed
KeyOf(cfg, customKey) == cfg.Prefix \o ":" \o customKey
Keys == {KeyOf(configsAtLoad[sub[1]], sub[2]) : sub \in Subjects}

\* the goroutines that call CheckRateLimitKey
Procs == {1, 2}

\* a goroutine outside CheckRateLimitKey; inside, cfg is its copy of
\* configs[ct], late whether Increment took the mutex after the expiry of
\* the entry of its key, fresh whether Increment made the entry, val and err
\* what Increment returned
Idle == [pc |-> "idle", ct |-> "", name |-> "", fresh |-> FALSE,
         late |-> FALSE, cfg |-> Nil, val |-> 0, err |-> ""]

\* no call was completed by the last step
NoDone == [op |-> "", ct |-> "", name |-> "", val |-> 0, err |-> "",
           fresh |-> FALSE, store |-> "", limit |-> 0]

\* the goroutines that call getCounter
Callers == {1, 2, 3}

\* a goroutine outside getCounter that has not called it
NotAsked == [pc |-> "idle", ret |-> Nil]

\* the Counter number id, in memory or in redis
CounterOf(kind, id) == [kind |-> kind, id |-> id]

\* getCounter was called once and nobody is inside it: the Counter is made
CounterMade ==
    /\ globalCounter = CounterOf(counter, 1)
    /\ globalCounterMu = 0
    /\ getter = [p \in Callers |-> NotAsked]
    /\ made = 1

\* variant: the mutex of getCounter is not waited for
GlobalLockAnyway(p) == globalCounterMu' = p

\* globalCounterMu.Lock()
GlobalLock(p) == globalCounterMu = 0 /\ globalCounterMu' = p

\* goroutine p calls getCounter
GetCounterCall(p) ==
    /\ getter[p].pc \in {"idle", "returned"}
    /\ getter' = [getter EXCEPT ![p].pc = "lock"]
    /\ UNCHANGED <<globalCounter, globalCounterMu, made, limitVars,
                   indexerVars, inviteVars, oidcVars>>

\* getCounter: the mutex is taken
GetCounterLock(p) ==
    /\ getter[p].pc = "lock"
    /\ GlobalLock(p)
    /\ getter' = [getter EXCEPT ![p].pc = "check"]
    /\ UNCHANGED <<globalCounter, made, limitVars, indexerVars, inviteVars, oidcVars>>

\* getCounter: if globalCounter != nil, it is returned and the deferred
\* Unlock runs
GetCounterCheck(p) ==
    /\ getter[p].pc = "check"
    /\ IF globalCounter # Nil
       THEN /\ getter' = [getter EXCEPT ![p] = [pc |-> "returned",
                                                ret |-> globalCounter]]
            /\ globalCounterMu' = 0
       ELSE /\ getter' = [getter EXCEPT ![p].pc = "make"]
            /\ UNCHANGED globalCounterMu
    /\ UNCHANGED <<globalCounter, made, limitVars, indexerVars, inviteVars, oidcVars>>

\* getCounter: the Counter is made, in memory when the configuration has no
\* redis client, and kept in globalCounter
GetCounterMake(p) ==
    /\ getter[p].pc = "make"
    /\ \E kind \in {"mem", "redis"} :
          /\ globalCounter' = CounterOf(kind, made + 1)
          /\ counter' = kind
    /\ made' = made + 1
    /\ getter' = [getter EXCEPT ![p].pc = "return"]
    /\ UNCHANGED <<globalCounterMu, cleaning, calls, configs, vals, mu, chk, now, hist, done,
                   indexerVars, inviteVars, oidcVars>>

\* getCounter: return globalCounter, and the deferred Unlock
GetCounterReturn(p) ==
    /\ getter[p].pc = "return"
    /\ getter' = [getter EXCEPT ![p] = [pc |-> "returned", ret |-> globalCounter]]
    /\ globalCounterMu' = 0
    /\ UNCHANGED <<globalCounter, made, limitVars, indexerVars, inviteVars, oidcVars>>

\* the state of the limiter before any call, with the in-memory counter
LimiterIdle ==
    /\ configs = configsAtLoad
    /\ calls = 0
    /\ cleaning = {}
    /\ vals = [k \in Keys |-> Nil]
    /\ mu = 0
    /\ chk = [p \in Procs |-> Idle]
    /\ now = 0
    /\ hist = [k \in Keys |-> <<>>]
    /\ done = NoDone
    /\ CounterMade

\* the comparisons of CheckRateLimitKey on what Increment returned
CheckResult(val, err, limit) ==
    IF err # NoErr THEN err
    ELSE IF val = limit + 1 THEN ErrRateLimitReached
    ELSE IF val > limit THEN ErrRateLimitExceeded
    ELSE NoErr

\* what CheckRateLimitKey returns to its caller when Increment returned
\* (val, err) and the copy of the configuration has the limit
Returned(ct, name, val, err, fresh, limit) ==
    [op |-> "CheckRateLimit", ct |-> ct, name |-> name, val |-> val,
     err |-> CheckResult(val, err, limit), fresh |-> fresh, store |-> NoErr,
     limit |-> limit]

\* SetMaximumLimit(ct, newLimit): configs[ct].Limit = newLimit, with no
\* lock, at any time
SetMaximumLimit(ct, newLimit) ==
    /\ configs' = [configs EXCEPT ![ct].Limit = newLimit]
    /\ done' = NoDone
    /\ UNCHANGED <<counter, cleaning, calls, vals, mu, chk, now, hist, indexerVars, inviteVars, getterVars, oidcVars>>

\* now.After(v.exp): the entry of the key is past its expiry
Expired(key) == IF vals[key] = Nil THEN FALSE ELSE now > vals[key].exp

\* variant: the mutex is not waited for
LockAnyway(p) == mu' = p

\* c.mu.Lock()
Lock(p) == mu = 0 /\ mu' = p

\* CheckRateLimitKey(customKey, ct), up to the call of Increment: cfg is a
\* copy of configs[ct]
CheckRateLimit(p, ct, name) ==
    /\ chk[p].pc = "idle"
    /\ calls < MaxChecks
    /\ calls' = calls + 1
    /\ chk' = [chk EXCEPT ![p] =
                  [pc |-> IF counter = "mem" THEN "lock" ELSE "eval",
                   ct |-> ct, name |-> name, fresh |-> FALSE, late |-> FALSE,
                   cfg |-> configs[ct], val |-> 0, err |-> NoErr]]
    /\ done' = NoDone
    /\ UNCHANGED <<counter, cleaning, configs, vals, mu, now, hist, indexerVars, inviteVars, getterVars, oidcVars>>

\* memCounter.Increment: the mutex is taken
IncrementLock(p) ==
    /\ chk[p].pc = "lock"
    /\ Lock(p)
    /\ chk' = [chk EXCEPT ![p].pc = "lookup",
                          ![p].late = Expired(KeyOf(chk[p].cfg, chk[p].name))]
    /\ done' = NoDone
    /\ UNCHANGED <<counter, cleaning, calls, configs, vals, now, hist, indexerVars, inviteVars, getterVars, oidcVars>>

\* memCounter.Increment: the entry of the key is made if there is none
IncrementLookup(p) ==
    LET key == KeyOf(chk[p].cfg, chk[p].name) IN
    /\ chk[p].pc = "lookup"
    /\ vals' = IF vals[key] = Nil
               THEN [vals EXCEPT ![key] =
                        [val |-> 0, exp |-> now + chk[p].cfg.Period]]
               ELSE vals
    /\ chk' = [chk EXCEPT ![p].pc = "add", ![p].fresh = (vals[key] = Nil)]
    /\ done' = NoDone
    /\ UNCHANGED <<counter, cleaning, calls, configs, mu, now, hist, indexerVars, inviteVars, getterVars, oidcVars>>

\* a nil *memRef is dereferenced: the goroutine panics, the deferred Unlock
\* runs and CheckRateLimitKey returns nothing
Panics(p) ==
    /\ mu' = 0
    /\ chk' = [chk EXCEPT ![p] = Idle]
    /\ done' = Returned(chk[p].ct, chk[p].name, 0, "panic", chk[p].fresh,
                        chk[p].cfg.Limit)
    /\ UNCHANGED <<counter, cleaning, calls, configs, vals, now, hist, indexerVars, inviteVars, getterVars, oidcVars>>

\* memCounter.Increment: c.vals[key].val++
IncrementAdd(p) ==
    LET key == KeyOf(chk[p].cfg, chk[p].name) IN
    /\ chk[p].pc = "add"
    /\ IF vals[key] = Nil THEN Panics(p)
       ELSE /\ vals' = [vals EXCEPT ![key].val = @ + 1]
            /\ chk' = [chk EXCEPT ![p].pc = "read"]
            /\ done' = NoDone
            /\ UNCHANGED <<counter, cleaning, calls, configs, mu, now, hist, indexerVars, inviteVars, getterVars, oidcVars>>

\* memCounter.Increment: return c.vals[key].val, nil, and the deferred
\* Unlock; CheckRateLimitKey holds val and has not compared it yet
IncrementReturn(p) ==
    LET key == KeyOf(chk[p].cfg, chk[p].name) IN
    /\ chk[p].pc = "read"
    /\ IF vals[key] = Nil THEN Panics(p)
       ELSE /\ mu' = 0
            /\ chk' = [chk EXCEPT ![p].pc = "ret", ![p].val = vals[key].val,
                                  ![p].err = NoErr]
            /\ done' = NoDone
            /\ hist' = [hist EXCEPT ![key] =
                           Append(@, Returned(chk[p].ct, chk[p].name,
                                              vals[key].val, NoErr,
                                              chk[p].fresh, chk[p].cfg.Limit))]
            /\ UNCHANGED <<counter, cleaning, calls, configs, vals, now, indexerVars, inviteVars, getterVars, oidcVars>>

\* redisCounter.Increment: the script incrWithTTL runs in redis in one piece
\* (INCR, then EXPIRE with the period when the key has no TTL) or not at
\* all, and Eval gives its result or an error, which it also gives when the
\* script ran and the reply was lost.  A key whose TTL is over is not in
\* redis any more: INCR makes it again at 1 and the script gives it a new
\* TTL
RedisEval(p) ==
    LET key  == KeyOf(chk[p].cfg, chk[p].name)
        gone == IF vals[key] = Nil THEN TRUE ELSE now >= vals[key].exp
        n    == IF gone THEN 1 ELSE vals[key].val + 1
    IN  /\ chk[p].pc = "eval"
        /\ \E ran \in BOOLEAN, err \in {NoErr, "errRedis"} :
              /\ ran \/ err # NoErr
              /\ vals' = IF ~ran
                         THEN (IF gone THEN [vals EXCEPT ![key] = Nil] ELSE vals)
                         ELSE IF gone
                         THEN [vals EXCEPT ![key] =
                                  [val |-> 1, exp |-> now + chk[p].cfg.Period]]
                         ELSE [vals EXCEPT ![key].val = n]
              /\ chk' = [chk EXCEPT ![p].pc = "ret",
                                    ![p].val = IF err = NoErr THEN n ELSE 0,
                                    ![p].err = err,
                                    ![p].fresh = gone]
              /\ hist' = [hist EXCEPT ![key] =
                             Append(IF gone THEN <<>> ELSE @,
                                    Returned(chk[p].ct, chk[p].name,
                                             IF err = NoErr THEN n ELSE 0,
                                             err, gone, chk[p].cfg.Limit))]
        /\ done' = NoDone
        /\ UNCHANGED <<counter, cleaning, calls, configs, mu, now, indexerVars, inviteVars, getterVars, oidcVars>>

\* CheckRateLimitKey after Increment: the error of Increment, or val
\* compared with cfg.Limit, is returned
CheckReturn(p) ==
    /\ chk[p].pc = "ret"
    /\ chk' = [chk EXCEPT ![p] = Idle]
    /\ done' = Returned(chk[p].ct, chk[p].name, chk[p].val, chk[p].err,
                        chk[p].fresh, chk[p].cfg.Limit)
    /\ UNCHANGED <<counter, cleaning, calls, configs, vals, mu, now, hist, indexerVars, inviteVars, getterVars, oidcVars>>

\* Counter.Reset(key): delete(c.vals, key), or DEL key in redis, which runs
\* or not; the counters after it
Reset(key, ran) ==
    IF ~ran THEN vals ELSE [vals EXCEPT ![key] = Nil]

\* ResetCounter(p, ct): the error of Reset is dropped; memCounter.Reset does
\* not take the mutex and gives no error; the DEL of redisCounter.Reset
\* gives an error when it did not run, and when its reply is lost
ResetCounter(ct, name) ==
    LET key == KeyOf(configs[ct], name) IN
    \E ran \in BOOLEAN, err \in {NoErr, "errRedis"} :
        /\ ran \/ err # NoErr
        /\ counter = "mem" => ran /\ err = NoErr
        /\ vals' = Reset(key, ran)
        /\ hist' = [k \in Keys |-> IF vals'[k] = Nil THEN <<>> ELSE hist[k]]
        /\ done' = [op |-> "ResetCounter", ct |-> ct, name |-> name, val |-> 0,
                    err |-> "", fresh |-> FALSE, store |-> err, limit |-> 0]
        /\ UNCHANGED <<counter, cleaning, calls, configs, mu, chk, now, indexerVars, inviteVars, getterVars, oidcVars>>

\* time passes; redis holds a key until its TTL is over and no longer,
\* while an entry of the in-memory counter stays until the cleaner deletes it
Tick ==
    /\ now < MaxTime
    /\ now' = now + 1
    /\ LET over == {k \in Keys : IF counter = "redis" /\ vals[k] # Nil
                                  THEN now + 1 >= vals[k].exp ELSE FALSE}
       IN  /\ vals' = [k \in Keys |-> IF k \in over THEN Nil ELSE vals[k]]
           /\ hist' = [k \in Keys |-> IF k \in over THEN <<>> ELSE hist[k]]
    /\ done' = NoDone
    /\ UNCHANGED <<counter, cleaning, calls, configs, mu, chk, indexerVars, inviteVars, getterVars, oidcVars>>

\* memCounter.cleaner, in a pass over the map: the entry it got for the
\* key is past its expiry; the mutex is not taken
CleanerTest(key) ==
    /\ counter = "mem"
    /\ cleaning = {}
    /\ vals[key] # Nil
    /\ Expired(key)
    /\ cleaning' = {key}
    /\ done' = NoDone
    /\ UNCHANGED <<counter, calls, configs, vals, mu, chk, now, hist, indexerVars, inviteVars, getterVars, oidcVars>>

\* memCounter.cleaner: delete(c.vals, k), of whatever entry the key has by
\* now; the mutex is not taken
CleanerDelete(key) ==
    /\ key \in cleaning
    /\ cleaning' = {}
    /\ vals' = [vals EXCEPT ![key] = Nil]
    /\ hist' = [hist EXCEPT ![key] = <<>>]
    /\ done' = NoDone
    /\ UNCHANGED <<counter, calls, configs, mu, chk, now, indexerVars, inviteVars, getterVars, oidcVars>>

\* getCounter has made the Counter: in memory when no redis client is
\* configured
InitLimits ==
    /\ counter \in {"mem", "redis"}
    /\ LimiterIdle
    /\ NoInvitation
    /\ NoStates
    /\ local = <<>>
    /\ ix = <<>>
    /\ stash = <<>>
    /\ written = <<>>
    /\ last = [inst |-> 0, op |-> "", args |-> <<>>, pre |-> Nil, ret |-> "",
               effects |-> <<>>, rand |-> ""]

NextLimits ==
    \/ \E p \in Procs, sub \in Subjects : CheckRateLimit(p, sub[1], sub[2])
    \/ \E set \in LimitChanges : SetMaximumLimit(set[1], set[2])
    \/ \E p \in Procs : IncrementLock(p)
    \/ \E p \in Procs : IncrementLookup(p)
    \/ \E p \in Procs : IncrementAdd(p)
    \/ \E p \in Procs : IncrementReturn(p)
    \/ \E p \in Procs : RedisEval(p)
    \/ \E p \in Procs : CheckReturn(p)
    \/ \E sub \in Subjects : ResetCounter(sub[1], sub[2])
    \/ Tick
    \/ \E key \in Keys : CleanerTest(key)
    \/ \E key \in Keys : CleanerDelete(key)

SpecLimits == InitLimits /\ [][NextLimits]_vars

\* no Counter is made yet and nobody has called getCounter
InitCounter ==
    /\ globalCounter = Nil
    /\ globalCounterMu = 0
    /\ getter = [p \in Callers |-> NotAsked]
    /\ made = 0
    /\ counter = "none"
    /\ configs = configsAtLoad
    /\ calls = 0
    /\ cleaning = {}
    /\ vals = [k \in Keys |-> Nil]
    /\ mu = 0
    /\ chk = [p \in Procs |-> Idle]
    /\ now = 0
    /\ hist = [k \in Keys |-> <<>>]
    /\ done = NoDone
    /\ NoInvitation
    /\ NoStates
    /\ local = <<>>
    /\ ix = <<>>
    /\ stash = <<>>
    /\ written = <<>>
    /\ last = [inst |-> 0, op |-> "", args |-> <<>>, pre |-> Nil, ret |-> "",
               effects |-> <<>>, rand |-> ""]

NextCounter ==
    \E p \in Callers :
        \/ GetCounterCall(p)
        \/ GetCounterLock(p)
        \/ GetCounterCheck(p)
        \/ GetCounterMake(p)
        \/ GetCounterReturn(p)

SpecCounter == InitCounter /\ [][NextCounter]_vars

(***************************************************************************)
(* The state machine of the storage of OAuth states.                       *)
(***************************************************************************)
\* a state is added; issued keeps what was added under every reference
DoAdd ==
    \E ref \in {r \in Refs : issued[r] = Nil}, cs \in ClientStates :
        LET st == Add(store, StateHolder(cs, 0), ref, clock) IN
        /\ store' = st
        /\ issued' = [issued EXCEPT ![ref] = st[ref]]
        /\ lookup' = [op |-> "Add", ref |-> ref, ret |-> st[ref]]
        /\ UNCHANGED <<clock, indexerVars, limitVars, inviteVars, getterVars>>

\* a reference is looked for, added before or not
DoFind ==
    \E ref \in Refs :
        LET out == Find(store, ref, clock) IN
        /\ store' = out.store
        /\ lookup' = [op |-> "Find", ref |-> ref, ret |-> out.ret]
        /\ UNCHANGED <<clock, issued, indexerVars, limitVars, inviteVars,
                       getterVars>>

\* time passes
Pass ==
    /\ clock < MaxClock
    /\ clock' = clock + 1
    /\ lookup' = NoFind
    /\ UNCHANGED <<store, issued, indexerVars, limitVars, inviteVars,
                   getterVars>>

InitStates ==
    /\ NoStates
    /\ NoInvitation
    /\ counter = "mem"
    /\ LimiterIdle
    /\ local = <<>>
    /\ ix = <<>>
    /\ stash = <<>>
    /\ written = <<>>
    /\ last = [inst |-> 0, op |-> "", args |-> <<>>, pre |-> Nil, ret |-> "",
               effects |-> <<>>, rand |-> ""]

NextStates == DoAdd \/ DoFind \/ Pass

SpecStates == InitStates /\ [][NextStates]_vars

(***************************************************************************)
(* The state machine of the invitations.                                   *)
(***************************************************************************)
InitInvitations ==
    /\ NoStates
    /\ sharing \in Sharings
    /\ inv = NotCalled
    /\ sent = <<>>
    /\ saved = <<>>
    /\ counter = "mem"
    /\ LimiterIdle
    /\ local = <<>>
    /\ ix = <<>>
    /\ stash = <<>>
    /\ written = <<>>
    /\ last = [inst |-> 0, op |-> "", args |-> <<>>, pre |-> Nil, ret |-> "",
               effects |-> <<>>, rand |-> ""]

NextInvitations ==
    \/ SendInvitations
    \/ \E k \in DOMAIN inv.go : GoShortcut(k)
    \/ \E k \in DOMAIN inv.go : GoMail(k)
    \/ WaitAndSave

SpecInvitations == InitInvitations /\ [][NextInvitations]_vars

(***************************************************************************)
(* The state machine of the invitations of a recipient.                    *)
(***************************************************************************)
InitMembers ==
    /\ NoStates
    /\ sharing \in OpenSharings
    /\ inv = NotCalled
    /\ sent = <<>>
    /\ saved = <<>>
    /\ counter = "mem"
    /\ LimiterIdle
    /\ local = <<>>
    /\ ix = <<>>
    /\ stash = <<>>
    /\ written = <<>>
    /\ last = [inst |-> 0, op |-> "", args |-> <<>>, pre |-> Nil, ret |-> "",
               effects |-> <<>>, rand |-> ""]

NextMembers ==
    \/ SendInvitationsToMembers
    \/ InviteNext
    \/ SaveMembers

SpecMembers == InitMembers /\ [][NextMembers]_vars

(***************************************************************************)
(* The state machine of the sharing indexer.                               *)
(***************************************************************************)
\* the pending contexts a replicated change can come with: the target
\* revision and its chain, newest first, the chain being whole (Start is
\* its length) or cut by the sender (Start is greater)
InitChains == {Reverse(SubSeq(Hashes, 1, n)) : n \in 1 .. Len(Hashes)}

InitCtxs ==
    {Ctx(Sprintf(p[2], p[1][1]), p[2], p[1]) :
        p \in {q \in InitChains \X (1 .. MaxStart) :
                   q[2] \in {Len(q[1]), Len(q[1]) + 1}}}

\* variant: the context is kept in one package-level variable, which every
\* indexer reads and writes
newSharingIndexerGlobal(inst, bulkRevs, shared) ==
    [bulkRevs |-> IF bulkRevs = Nil THEN Nil ELSE bulkRevs.to,
     at       |-> IF bulkRevs = Nil THEN 0 ELSE 1,
     shared   |-> shared]

\* newSharingIndexer(inst, bulkRevs, shared): the new indexer holds the
\* pointer it is given, which may be nil; shared tells whether the other
\* pointer is set.  A pointer to a context is [at, to]: the struct it
\* points to and the address of that struct (1, 2, ...; 0 is the address of
\* no struct).  An indexer is its field bulkRevs, as the struct it points
\* to with the address at of that struct, and shared.
newSharingIndexer(inst, bulkRevs, shared) ==
    [bulkRevs |-> IF bulkRevs = Nil THEN Nil ELSE bulkRevs.to,
     at       |-> IF bulkRevs = Nil THEN 0 ELSE bulkRevs.at,
     shared   |-> shared]

\* the indexers a change can be processed with: its caller allocates the
\* context of the change, if any
NewIndexers ==
    {newSharingIndexer(1, p, sh) :
         p \in {[at |-> 1, to |-> b] : b \in InitCtxs} \cup {Nil}, sh \in BOOLEAN}

\* the arguments of the calls
FileDocs == {FileDoc("file1", t) : t \in BOOLEAN}
DirDocs == {DirDoc("dir1")}
\* the revision of the local document and the chain of the incoming one,
\* oldest first, given to WillResolveConflict
LocalRevs == {Sprintf(g, "xxx") : g \in 2 .. 3}
Chains == {revsStructToChain(c.Revisions) :
              c \in {x \in InitCtxs : x.Revisions.Start = Len(x.Revisions.IDs)}}
\* the chain was cut above the revision of the local document, which is the
\* first one
CutChains == {revsStructToChain(c.Revisions) :
                 c \in {x \in InitCtxs : x.Revisions.Start > Len(x.Revisions.IDs)}}
Conflicts == (LocalRevs \X Chains) \cup ({Sprintf(1, "xxx")} \X CutChains)

\* before the first call
NoCall == [inst |-> 0, op |-> "", args |-> <<>>, pre |-> Nil, ret |-> "",
           effects |-> <<>>, rand |-> ""]

Writes(effects) == SelectSeq(effects, LAMBDA e : e.k = "write")

\* indexer i runs method op on args with outcome out; rand is the random id
\* the call drew ("" when it drew none), held the value its caller holds as
\* the stash after the call, log the forced writes on record after it.
\* A method either sets s.bulkRevs of its receiver to nil or assigns the
\* fields of the struct s.bulkRevs points to (it allocates none): what it
\* assigns is what every indexer holding a pointer to that struct reads
Invoke(i, op, args, out, rand, held, log) ==
    /\ Len(log) <= MaxWrites
    /\ UNCHANGED <<local, limitVars, inviteVars, getterVars, oidcVars>>
    /\ ix' = [j \in DOMAIN ix |->
                 IF j = i
                 THEN [ix[i] EXCEPT !.bulkRevs = out.b,
                                    !.at = IF out.b = Nil THEN 0 ELSE @]
                 ELSE IF out.b # Nil /\ ix[i].at # 0 /\ ix[j].at = ix[i].at
                      THEN [ix[j] EXCEPT !.bulkRevs = out.b]
                      ELSE ix[j]]
    /\ stash' = [stash EXCEPT ![i] = held]
    /\ written' = log
    /\ last' = [inst |-> i, op |-> op, args |-> args, pre |-> ix[i].bulkRevs,
                ret |-> out.ret, effects |-> out.effects, rand |-> rand]

\* a method of vfs.Indexer: its forced writes are added to the record
Call(i, op, args, out, rand) ==
    Invoke(i, op, args, out, rand, stash[i],
           written \o [k \in 1 .. Len(Writes(out.effects)) |->
                          [by |-> i, rev |-> Writes(out.effects)[k].rev,
                           trashed |-> Writes(out.effects)[k].trashed]])

\* a cursor method: the caller moves the cursor, which starts a new run of
\* writes; it has no effect on the collaborators
Move(i, op, args, b, ret, rand, held) ==
    Invoke(i, op, args, Out(b, ret, <<>>), rand, held, <<>>)

\* the chain of b may take one more entry
MayGrow(b) == IF b = Nil THEN TRUE ELSE Len(b.Revisions.IDs) < MaxLen

\* the generation of b may be lowered by one
MayFall(b) == IF b = Nil THEN TRUE ELSE b.Revisions.Start > MinStart

\* the generation of b may be raised by one
MayRise(b) == IF b = Nil THEN TRUE ELSE b.Revisions.Start < MaxStart

\* the random ids a call on b may draw: none when it returns at once
Draws(b) == IF b = Nil THEN {""} ELSE RandomIDs

DoIncrementRevision(i) ==
    \E generated \in Draws(ix[i].bulkRevs) :
        /\ MayGrow(ix[i].bulkRevs)
        /\ MayRise(ix[i].bulkRevs)
        /\ Move(i, "IncrementRevision", <<>>,
                IncrementRevision(ix[i].bulkRevs, generated), "",
                generated, stash[i])

ResolveConflict(i, rev, chain) ==
    LET out == WillResolveConflict(ix[i].bulkRevs, rev, chain) IN
    Move(i, "WillResolveConflict", <<rev, chain>>, out.b, out.ret, "", stash[i])

DoWillResolveConflict(i) ==
    \E c \in Conflicts : ResolveConflict(i, c[1], c[2])

DoStashRevision(i) ==
    \E newFile \in BOOLEAN :
        LET out == StashRevision(ix[i].bulkRevs, newFile) IN
        /\ MayFall(ix[i].bulkRevs)
        /\ Move(i, "StashRevision", <<newFile>>, out.b, out.ret, "", out.ret)

\* the caller gives back what the last StashRevision returned
DoUnstashRevision(i) ==
    /\ stash[i] # NoStash
    /\ MayGrow(ix[i].bulkRevs)
    /\ Move(i, "UnstashRevision", <<stash[i]>>,
            UnstashRevision(ix[i].bulkRevs, stash[i]), "", "", NoStash)

DoCreateBogusPrevRev(i) ==
    \E bogus \in Draws(ix[i].bulkRevs) :
        /\ MayGrow(ix[i].bulkRevs)
        /\ Move(i, "CreateBogusPrevRev", <<>>,
                CreateBogusPrevRev(ix[i].bulkRevs, bogus), "", bogus, stash[i])

\* the inputs CreateNamedFileDoc reads: the result of the wrapped indexer
\* without a context; with one, the failures of the path computation and of
\* the write for a document that is not trashed, and the bogus id (for a
\* chain of one entry) and the failure of the write for a trashed one
CreateInputs(s, doc) ==
    IF s.bulkRevs = Nil THEN Proxying
    ELSE IF ~doc.Trashed THEN Inputs({""}, {"none", "path", "write"}, {NoErr})
    ELSE Inputs(IF Len(s.bulkRevs.Revisions.IDs) = 1 THEN RandomIDs ELSE {""},
                {"none", "write"}, {NoErr})

DoCreateNamedFileDoc(i) ==
    \E doc \in FileDocs :
        \E in \in CreateInputs(ix[i], doc) :
            Call(i, "CreateNamedFileDoc", <<doc>>,
                   CreateNamedFileDoc(ix[i], doc, in), in.rand)

\* the inputs UpdateFileDoc and UpdateDirDoc read
UpdateInputs(s, fails) ==
    IF s.bulkRevs = Nil THEN Proxying ELSE Inputs({""}, fails, {NoErr})

\* the document an update replaces, when the caller has it
OldFileDocs == {Nil, FileDoc("file1", TRUE)}

DoUpdateFileDoc(i) ==
    \E olddoc \in OldFileDocs :
        \E in \in UpdateInputs(ix[i], {"none", "write", "path"}
                                  \cup (IF ix[i].shared THEN {"shared"} ELSE {})
                                  \cup (IF olddoc # Nil THEN {"oldpath"} ELSE {})) :
            Call(i, "UpdateFileDoc", <<olddoc, FileDoc("file1", FALSE)>>,
                   UpdateFileDoc(ix[i], olddoc, FileDoc("file1", FALSE), in),
                   "")

DoUpdateDirDoc(i) ==
    \E olddoc \in DirDocs \cup {Nil}, doc \in DirDocs :
        \E in \in UpdateInputs(ix[i], {"none", "write", "shared"}) :
            Call(i, "UpdateDirDoc", <<olddoc, doc>>,
                   UpdateDirDoc(ix[i], olddoc, doc, in), "")

DoCreateNamedDirDoc(i) ==
    \E doc \in DirDocs :
        \E in \in UpdateInputs(ix[i], {"none", "write", "shared"}) :
            Call(i, "CreateNamedDirDoc", <<doc>>,
                   CreateNamedDirDoc(ix[i], doc, in), "")

DoDeleteFileDoc(i) ==
    \E doc \in FileDocs, in \in Proxying :
        Call(i, "DeleteFileDoc", <<doc>>, DeleteFileDoc(ix[i], doc, in),
               "")

DoInitIndex(i) ==
    Call(i, "InitIndex", <<>>, InitIndex(ix[i]), "")

DoCreateFileDoc(i) ==
    \E doc \in FileDocs :
        Call(i, "CreateFileDoc", <<doc>>, CreateFileDoc(ix[i], doc), "")

DoCreateDirDoc(i) ==
    \E doc \in DirDocs :
        Call(i, "CreateDirDoc", <<doc>>, CreateDirDoc(ix[i], doc), "")

DoDeleteDirDoc(i) ==
    \E doc \in DirDocs :
        Call(i, "DeleteDirDoc", <<doc>>, DeleteDirDoc(ix[i], doc), "")

DoDeleteDirDocAndContent(i) ==
    \E doc \in DirDocs, onlyContent \in BOOLEAN :
        Call(i, "DeleteDirDocAndContent", <<doc, onlyContent>>,
               DeleteDirDocAndContent(ix[i], doc, onlyContent), "")

DoBatchDelete(i) ==
    \E doc \in FileDocs :
        Call(i, "BatchDelete", <<doc>>, BatchDelete(ix[i], <<doc>>), "")

DoCheckIndexIntegrity(i) ==
    Call(i, "CheckIndexIntegrity", <<>>, CheckIndexIntegrity(ix[i]), "")

DoCheckTreeIntegrity(i) ==
    Call(i, "CheckTreeIntegrity", <<>>, CheckTreeIntegrity(ix[i]), "")

DoBuildTree(i) ==
    Call(i, "BuildTree", <<>>, BuildTree(ix[i]), "")

DoProxied(i) ==
    \E op \in ProxiedOps, in \in Proxying :
        Call(i, op, <<>>, Proxied(ix[i], op, <<>>, in), "")

\* one change, processed through one indexer
Init ==
    /\ ix \in [{1} -> NewIndexers]
    /\ local = [i \in {1} |-> Nil]
    /\ stash = [i \in {1} |-> NoStash]
    /\ written = <<>>
    /\ last = NoCall
    /\ counter = "mem"
    /\ LimiterIdle
    /\ NoInvitation
    /\ NoStates

\* the processing of a change: the cursor operations and the writes of
\* files and directories
Next ==
    \E i \in DOMAIN ix :
        \/ DoIncrementRevision(i)
        \/ DoWillResolveConflict(i)
        \/ DoStashRevision(i)
        \/ DoUnstashRevision(i)
        \/ DoCreateBogusPrevRev(i)
        \/ DoCreateNamedFileDoc(i)
        \/ DoUpdateFileDoc(i)
        \/ DoUpdateDirDoc(i)
        \/ DoCreateNamedDirDoc(i)

Spec == Init /\ [][Next]_vars

\* the whole vfs.Indexer interface of a sharing indexer, with the one cursor
\* operation that can drop the context in the middle of a change
NextIndexer ==
    \E i \in DOMAIN ix :
        \/ DoStashRevision(i)
        \/ DoCreateNamedFileDoc(i)
        \/ DoUpdateFileDoc(i)
        \/ DoUpdateDirDoc(i)
        \/ DoCreateNamedDirDoc(i)
        \/ DoDeleteFileDoc(i)
        \/ DoInitIndex(i)
        \/ DoCreateFileDoc(i)
        \/ DoCreateDirDoc(i)
        \/ DoDeleteDirDoc(i)
        \/ DoDeleteDirDocAndContent(i)
        \/ DoBatchDelete(i)
        \/ DoCheckIndexIntegrity(i)
        \/ DoCheckTreeIntegrity(i)
        \/ DoBuildTree(i)
        \/ DoProxied(i)

SpecIndexer == Init /\ [][NextIndexer]_vars

\* one change whose document came without its ancestors: the indexer is made
\* with a context whose chain is empty (the zero RevsStruct), the case of a
\* chain too short to stash even after the bogus-revision step
InitShort ==
    /\ ix \in [{1} -> {newSharingIndexer(
                             1, [at |-> 1,
                                 to |-> [Rev |-> Sprintf(g, Hashes[1]),
                                         Revisions |-> [Start |-> 0, IDs |-> <<>>]]],
                             sh) : g \in 1 .. 2, sh \in BOOLEAN}]
    /\ local = [i \in {1} |-> Nil]
    /\ stash = [i \in {1} |-> NoStash]
    /\ written = <<>>
    /\ last = NoCall
    /\ counter = "mem"
    /\ LimiterIdle
    /\ NoInvitation
    /\ NoStates

SpecShort == InitShort /\ [][Next]_vars

\* two instances that share a document and have each the revision of the
\* other coming in: each one's indexer is made for the document of the
\* other, and resolves the conflict with its own revision as the local one
InitPair ==
    /\ local \in {t \in [{1, 2} -> InitCtxs] : t[1] # t[2]}
    /\ ix = [i \in {1, 2} |-> newSharingIndexer(i, [at |-> i, to |-> local[3 - i]], TRUE)]
    /\ stash = [i \in {1, 2} |-> NoStash]
    /\ written = <<>>
    /\ last = NoCall
    /\ counter = "mem"
    /\ LimiterIdle
    /\ NoInvitation
    /\ NoStates

DoResolveWithPeer(i) ==
    ResolveConflict(i, local[i].Rev, revsStructToChain(local[3 - i].Revisions))

NextPair ==
    \E i \in DOMAIN ix :
        \/ DoResolveWithPeer(i)
        \/ DoUpdateFileDoc(i)
        \/ DoUpdateDirDoc(i)

SpecPair == InitPair /\ [][NextPair]_vars

\* two changes, for two documents, processed at the same time: each has its
\* own indexer, made with its own bulkRevs, and the calls of the two
\* goroutines interleave
InitOwners ==
    /\ ix = <<newSharingIndexer(
                  1, [at |-> 1, to |-> Ctx("2-bbb", 2, <<"bbb", "aaa">>)], TRUE),
              newSharingIndexer(
                  2, [at |-> 2, to |-> Ctx("3-ccc", 3, <<"ccc", "bbb", "aaa">>)], TRUE)>>
    /\ local = [i \in {1, 2} |-> Nil]
    /\ stash = [i \in {1, 2} |-> NoStash]
    /\ written = <<>>
    /\ last = NoCall
    /\ counter = "mem"
    /\ LimiterIdle
    /\ NoInvitation
    /\ NoStates

NextOwners ==
    \E i \in DOMAIN ix :
        \/ DoStashRevision(i)
        \/ DoUnstashRevision(i)
        \/ DoCreateNamedFileDoc(i)
        \/ DoUpdateFileDoc(i)

SpecOwners == InitOwners /\ [][NextOwners]_vars

(***************************************************************************)
(* Properties.  last is the most recent call and last.pre the context it   *)
(* found, so the context of the indexer that ran it is what it left.       *)
(***************************************************************************)
\* the context the most recent call left
Cur == ix[last.inst].bulkRevs

\* the target revision of b is the head of its chain
Consistent(b) ==
    IF b = Nil THEN FALSE
    ELSE /\ b.Revisions.IDs # <<>>
         /\ b.Rev = Sprintf(b.Revisions.Start, b.Revisions.IDs[1])

\* the methods that create or update a document
WriteOps == {"CreateNamedFileDoc", "UpdateFileDoc", "UpdateDirDoc", "CreateNamedDirDoc"}

\* call l did nothing but call the wrapped indexer and return its result
Delegated(l) ==
    /\ Len(l.effects) = 1
    /\ l.effects[1].k = "call"
    /\ l.effects[1].ret = l.ret

\* C1: from a context with a chain of two entries or more whose target is
\* the head of the chain, CreateNamedFileDoc of a trashed document followed
\* by UpdateFileDoc issues one forced write each: the first with the
\* second-newest entry at the generation below the head, the second with the
\* original target, which is the revision the document ends with.
UploadStarts ==
    /\ last.op = "CreateNamedFileDoc"
    /\ last.args[1].Trashed
    /\ Consistent(last.pre)
    /\ Len(last.pre.Revisions.IDs) >= 2
    /\ last.ret = NoErr

C1_TwoWriteUpload ==
    [][(UploadStarts /\ last'.op = "UpdateFileDoc" /\ last'.inst = last.inst)
        => /\ Len(Writes(last.effects)) = 1
           /\ Len(Writes(last'.effects)) = 1
           /\ Writes(last.effects)[1].trashed
           /\ Writes(last.effects)[1].rev =
                  Sprintf(last.pre.Revisions.Start - 1, last.pre.Revisions.IDs[2])
           /\ Writes(last'.effects)[1].rev = last.pre.Rev
           /\ Writes(last'.effects)[1].revisions = last.pre.Revisions
           /\ Len(written') = Len(written) + 1
           /\ (last'.ret = NoErr =>
                  last'.effects[Len(last'.effects)].doc.DocRev = last.pre.Rev)]_vars

C1_Witness ==
    /\ last.op = "UpdateFileDoc"
    /\ last.ret = NoErr
    /\ last.pre = Ctx("2-bbb", 2, <<"bbb", "aaa">>)
    /\ written = <<[by |-> 1, rev |-> "1-aaa", trashed |-> TRUE],
                   [by |-> 1, rev |-> "2-bbb", trashed |-> FALSE]>>

\* C2: for a context whose target is the head of its chain and whose chain
\* has the entries StashRevision needs, UnstashRevision of what
\* StashRevision returned gives back the target revision, Start and the
\* chain as they were before.
C2_StashUnstashRoundTrip ==
    [][(/\ last.op = "StashRevision"
        /\ Consistent(last.pre)
        /\ Len(last.pre.Revisions.IDs) >= minRevs(last.args[1])
        /\ last'.op = "UnstashRevision"
        /\ last'.inst = last.inst)
        => /\ last'.args = <<last.ret>>
           /\ ix'[last.inst].bulkRevs = last.pre]_vars

C2_Witness ==
    /\ last.op = "UnstashRevision"
    /\ last.args = <<"ccc">>
    /\ last.pre = Ctx("2-bbb", 2, <<"bbb", "aaa">>)
    /\ Cur = Ctx("3-ccc", 3, <<"ccc", "bbb", "aaa">>)

(***************************************************************************)
(* WillResolveConflict.                                                    *)
(***************************************************************************)
\* the most recent call is WillResolveConflict(rev, chain) and did not panic
Resolved == last.op = "WillResolveConflict" /\ last.ret # "panic"

LocalRev == last.args[1]
Leaf == last.args[2][Len(last.args[2])]
SameGeneration == RevGeneration(Leaf) = RevGeneration(LocalRev)

\* C3, as stated: when the generation of the leaf of the chain differs from
\* the generation of the other revision, WillResolveConflict drops the
\* context.
C3_DropsWhenDifferent ==
    (Resolved /\ last.pre # Nil /\ ~SameGeneration) => Cur = Nil

\* C3, amended: WillResolveConflict drops the context when the two
\* generations are EQUAL, and the create or update that follows is handed to
\* the wrapped indexer (CreateNamedDirDoc as its UpdateDirDoc) with no
\* forced write; when they differ the context stays in force.
C3_DropsWhenEqual ==
    /\ [](Resolved /\ SameGeneration => Cur = Nil)
    /\ [](Resolved /\ ~SameGeneration => Cur # Nil)
    /\ [][(Resolved /\ SameGeneration /\ last'.inst = last.inst
              /\ last'.op \in WriteOps)
           => /\ Delegated(last')
              /\ last'.effects[1].op =
                     (IF last'.op = "CreateNamedDirDoc" THEN "UpdateDirDoc"
                      ELSE last'.op)
              /\ written' = written]_vars

C3_Witness ==
    /\ Resolved
    /\ last.args = <<"2-xxx", <<"1-aaa", "2-bbb">>>>
    /\ last.pre = Ctx("2-bbb", 2, <<"bbb", "aaa">>)
    /\ Cur = Nil

\* the ids of the revisions of a chain
IDsOf(chain) == {RevID(chain[k]) : k \in 1 .. Len(chain)}

\* C4, as stated: when the two generations are equal WillResolveConflict
\* keeps the context, with a new head one generation above the leaf and
\* every ancestor of the two chains below it.
C4_MergesWhenEqual ==
    (Resolved /\ last.pre # Nil /\ SameGeneration)
        => IF Cur = Nil THEN FALSE
           ELSE /\ Cur.Revisions.Start = RevGeneration(Leaf) + 1
                /\ Cur.Rev = Sprintf(Cur.Revisions.Start, Cur.Revisions.IDs[1])
                /\ Cur.Revisions.IDs[1] \notin IDsOf(last.args[2]) \cup {RevID(LocalRev)}
                /\ IDsOf(last.args[2]) \subseteq
                       {Cur.Revisions.IDs[k] : k \in 2 .. Len(Cur.Revisions.IDs)}

\* C4, amended: when the two generations are equal WillResolveConflict
\* builds no chain and draws no random id: it leaves the indexer without a
\* context and with nothing written, whatever the context was.
C4_NoMergeWhenEqual ==
    (Resolved /\ SameGeneration)
        => /\ Cur = Nil
           /\ last.rand = ""
           /\ last.effects = <<>>
           /\ written = <<>>

C4_Witness ==
    /\ Resolved
    /\ last.args = <<"3-xxx", <<"1-aaa", "2-bbb", "3-ccc">>>>
    /\ last.pre = Ctx("3-ccc", 3, <<"ccc", "bbb", "aaa">>)
    /\ Cur = Nil

\* C5: when the two generations differ, the revision a forced write would
\* use after WillResolveConflict is the leaf of the chain given, not a
\* random id, and its generation is the higher of the two.
Higher(m, n) == IF m >= n THEN m ELSE n

C5_AdoptsHigher ==
    (Resolved /\ ~SameGeneration)
        => /\ Cur # Nil
           /\ Cur.Rev = Leaf
           /\ RevID(Cur.Rev) \notin RandomIDs
           /\ RevGeneration(Cur.Rev) =
                  Higher(RevGeneration(Leaf), RevGeneration(LocalRev))

C5_Witness ==
    /\ Resolved
    /\ last.args = <<"3-xxx", <<"1-aaa", "2-bbb">>>>
    /\ last.pre # Nil
    /\ Cur # Nil
    /\ Cur.Rev = "2-bbb"

(***************************************************************************)
(* Two instances, each resolving the conflict with the other (SpecPair).   *)
(***************************************************************************)
\* the two documents are at the same generation
EqualPair == RevGeneration(local[1].Rev) = RevGeneration(local[2].Rev)

\* instance i has resolved the conflict of an equal pair: nothing else in
\* SpecPair changes the context it was made with
HasResolved(i) == ix[i].bulkRevs # local[3 - i]

\* the ids below the head of the chain of b
Ancestors(b) == {b.Revisions.IDs[k] : k \in 2 .. Len(b.Revisions.IDs)}

\* C6, as stated: for two documents at the same generation, once each
\* instance has run WillResolveConflict with the revision of the other
\* coming in, both contexts have a head of the same generation over the
\* same ancestors.
C6_SameMergedHead ==
    (EqualPair /\ HasResolved(1) /\ HasResolved(2))
        => IF ix[1].bulkRevs = Nil \/ ix[2].bulkRevs = Nil THEN FALSE
           ELSE /\ ix[1].bulkRevs.Revisions.Start = ix[2].bulkRevs.Revisions.Start
                /\ Ancestors(ix[1].bulkRevs) = Ancestors(ix[2].bulkRevs)

\* C6, amended: for two documents at the same generation the outcome is the
\* same on both sides, and it is no context at all: WillResolveConflict
\* leaves the instance that runs it without a context, whichever of the two
\* it is, so that no forced write of a common new leaf is made by either
\* and the writes that follow are handed to the wrapped indexer.
C6_BothDropContext ==
    EqualPair =>
        \A i \in DOMAIN ix :
            /\ ix[i].bulkRevs \in {local[3 - i], Nil}
            /\ (last.inst = i /\ last.op = "WillResolveConflict")
                   => (ix[i].bulkRevs = Nil /\ last.ret = "" /\ last.rand = "")
            /\ (last.inst = i /\ last.op \in WriteOps /\ HasResolved(i))
                   => (Delegated(last) /\ Writes(last.effects) = <<>>)

C6_Witness ==
    /\ EqualPair
    /\ last.op = "WillResolveConflict"
    /\ local[1] = Ctx("2-bbb", 2, <<"bbb", "aaa">>)
    /\ local[2] = Ctx("2-aaa", 2, <<"aaa">>)
    /\ ix[1].bulkRevs = Nil
    /\ ix[2].bulkRevs = Nil

(***************************************************************************)
(* The vfs.Indexer interface (SpecIndexer).                                *)
(***************************************************************************)
DeleteOps == {"DeleteFileDoc", "DeleteDirDoc", "DeleteDirDocAndContent", "BatchDelete"}

\* the methods that return ErrInternalServerError whatever the context
RefusedOps ==
    {"InitIndex", "CreateFileDoc", "CreateDirDoc", "DeleteDirDoc",
     "DeleteDirDocAndContent", "BatchDelete", "CheckIndexIntegrity",
     "CheckTreeIntegrity", "BuildTree"}

\* the methods of vfs.Indexer
IndexerOps == WriteOps \cup {"DeleteFileDoc"} \cup RefusedOps \cup ProxiedOps

\* the most recent call was refused: an error and nothing done
WasRefused ==
    /\ last.ret = ErrInternalServerError
    /\ last.effects = <<>>
    /\ Cur = last.pre

\* the most recent call was handed to method op of the wrapped indexer
\* with arguments args, and returned what it returned
WasHandedTo(op, args) ==
    /\ last.effects = <<IndexerCall(op, args, last.ret)>>
    /\ Cur = last.pre

\* C7, as stated: with a context in force, DeleteFileDoc, DeleteDirDoc,
\* DeleteDirDocAndContent and BatchDelete return the error and change
\* nothing in the storage.
C7_EveryDeleteRefused ==
    (last.op \in DeleteOps /\ last.pre # Nil) => WasRefused

\* C7, amended: with a context in force, DeleteDirDoc,
\* DeleteDirDocAndContent and BatchDelete return ErrInternalServerError and
\* do nothing, but DeleteFileDoc is handed to the wrapped indexer, which
\* deletes the document, and returns its result.
C7_DeletesButFileRefused ==
    last.pre # Nil =>
        /\ last.op \in DeleteOps \ {"DeleteFileDoc"} => WasRefused
        /\ last.op = "DeleteFileDoc" => WasHandedTo("DeleteFileDoc", last.args)

C7_Witness ==
    /\ last.op = "DeleteFileDoc"
    /\ last.pre = Ctx("2-bbb", 2, <<"bbb", "aaa">>)
    /\ last.ret = NoErr
    /\ last.effects = <<IndexerCall("DeleteFileDoc", <<FileDoc("file1", FALSE)>>, NoErr)>>

\* C8, as stated: without a context every method of the indexer calls the
\* method of the same name of the wrapped indexer with the same arguments
\* and returns its result.
C8_EveryMethodDelegates ==
    (last.op \in IndexerOps /\ last.pre = Nil) => WasHandedTo(last.op, last.args)

\* C8, amended: without a context, CreateNamedFileDoc, UpdateFileDoc,
\* UpdateDirDoc, DeleteFileDoc, the lookups, the usage statistics and the
\* operations on versions call the method of the same name with the same
\* arguments and return its result; CreateNamedDirDoc calls UpdateDirDoc
\* with no old document; InitIndex, CreateFileDoc, CreateDirDoc,
\* DeleteDirDoc, DeleteDirDocAndContent, BatchDelete and the integrity and
\* tree operations return ErrInternalServerError and call nothing.
C8_DelegatesButRefused ==
    (last.op \in IndexerOps /\ last.pre = Nil) =>
        IF last.op \in RefusedOps THEN WasRefused
        ELSE IF last.op = "CreateNamedDirDoc"
             THEN WasHandedTo("UpdateDirDoc", <<Nil, last.args[1]>>)
        ELSE WasHandedTo(last.op, last.args)

C8_Witness ==
    /\ last.op = "UpdateFileDoc"
    /\ last.pre = Nil
    /\ last.ret = "errIndexer"
    /\ last.effects = <<IndexerCall("UpdateFileDoc", last.args, "errIndexer")>>

(***************************************************************************)
(* StashRevision.                                                          *)
(***************************************************************************)
\* the most recent call is a StashRevision that found the entries it needs
StashDone ==
    /\ last.op = "StashRevision"
    /\ IF last.pre = Nil THEN FALSE
       ELSE Len(last.pre.Revisions.IDs) >= minRevs(last.args[1])

\* C9: StashRevision on a context with two entries or more for a new file,
\* three or more otherwise, removes the head of the chain, lowers Start by
\* one, sets the target revision to the new Start and the new head, keeps
\* the other entries in order, and returns the entry removed.
C9_StashRevisionMoves ==
    StashDone =>
        /\ Cur # Nil
        /\ Cur.Revisions.IDs = Tail(last.pre.Revisions.IDs)
        /\ Cur.Revisions.Start = last.pre.Revisions.Start - 1
        /\ Cur.Rev = Sprintf(Cur.Revisions.Start, Cur.Revisions.IDs[1])
        /\ last.ret = last.pre.Revisions.IDs[1]
        /\ stash[last.inst] = last.ret

C9_Witness ==
    /\ last.op = "StashRevision"
    /\ last.args = <<FALSE>>
    /\ last.pre = Ctx("3-ccc", 3, <<"ccc", "bbb", "aaa">>)
    /\ last.ret = "ccc"
    /\ Cur = Ctx("2-bbb", 2, <<"bbb", "aaa">>)

\* C10: StashRevision without a context, or on a chain shorter than it
\* needs, returns "" and leaves the indexer without a context; from then on
\* the indexer stays without one, also through UnstashRevision(""), and
\* UpdateFileDoc, UpdateDirDoc and CreateNamedFileDoc are handed to the
\* wrapped indexer with no forced write.
C10_StashRevisionFallsBack ==
    /\ []((last.op = "StashRevision" /\ ~StashDone)
            => (last.ret = "" /\ Cur = Nil /\ stash[last.inst] = ""))
    /\ [][\A i \in DOMAIN ix :
            (ix[i].bulkRevs = Nil /\ last'.inst = i /\ last'.op # "")
                => /\ ix'[i].bulkRevs = Nil
                   /\ Len(written') <= Len(written)
                   /\ last'.ret # "panic" => Writes(last'.effects) = <<>>
                   /\ last'.op \in {"UpdateFileDoc", "UpdateDirDoc", "CreateNamedFileDoc"}
                          => (Delegated(last') /\ last'.effects[1].op = last'.op)]_vars

C10_Witness ==
    /\ last.op = "UpdateFileDoc"
    /\ last.pre = Nil
    /\ stash[last.inst] = ""
    /\ Delegated(last)
    /\ written = <<>>

(***************************************************************************)
(* The forced writes.                                                      *)
(***************************************************************************)
\* the forced writes of the most recent call
LastWrites == Writes(last.effects)

\* the most recent call is a create or an update of an indexer with a
\* context
Forcing == last.op \in WriteOps /\ last.pre # Nil

\* the most recent call is CreateNamedFileDoc of a trashed document
TrashedCreate ==
    /\ last.op = "CreateNamedFileDoc"
    /\ last.args[1].Trashed

\* C11: CreateNamedFileDoc of a trashed document by an indexer whose
\* context has an empty chain, too short for StashRevision even after the
\* bogus-revision step, ends without a crash and without a forced write.
C11_ShortChainFallsBack ==
    (TrashedCreate /\ Forcing)
        => IF last.pre.Revisions.IDs = <<>>
           THEN last.ret # "panic" /\ LastWrites = <<>>
           ELSE TRUE

C11_Witness ==
    /\ TrashedCreate
    /\ last.pre = [Rev |-> "2-aaa", Revisions |-> [Start |-> 0, IDs |-> <<>>]]
    /\ last.ret = "panic"
    /\ LastWrites = <<>>
    /\ Cur = Nil

\* C12, as stated: no two forced writes of the same indexer between two
\* moves of the cursor carry the same revision.
C12_DistinctRevisions ==
    \A j, k \in DOMAIN written :
        (j < k /\ written[j].by = written[k].by) => written[j].rev # written[k].rev

\* C12, amended: a forced write does not move the cursor.  UpdateFileDoc,
\* UpdateDirDoc, CreateNamedDirDoc and CreateNamedFileDoc of a document that
\* is not trashed write with the target revision of the context and leave
\* the context as it was, so that two of them in a row carry the SAME
\* revision; only the write of a trashed CreateNamedFileDoc carries another
\* one, which differs from that of the write before or after it.
C12_WritesKeepCursor ==
    /\ (Forcing /\ ~TrashedCreate /\ last.ret # "panic")
           => /\ Cur = last.pre
              /\ \A k \in DOMAIN LastWrites : LastWrites[k].rev = last.pre.Rev
    /\ \A k \in 1 .. Len(written) - 1 :
           written[k].by = written[k + 1].by
               => ((written[k].rev = written[k + 1].rev)
                      <=> (written[k].trashed = written[k + 1].trashed))

C12_Witness ==
    /\ last.op = "UpdateFileDoc"
    /\ last.ret = NoErr
    /\ last.pre = Ctx("2-bbb", 2, <<"bbb", "aaa">>)
    /\ written = <<[by |-> 1, rev |-> "2-bbb", trashed |-> FALSE],
                   [by |-> 1, rev |-> "2-bbb", trashed |-> FALSE]>>

\* a chain as a replicated document has it: the target revision is its
\* head and it does not go below generation 1
ValidChain(b) ==
    /\ Consistent(b)
    /\ b.Revisions.Start >= Len(b.Revisions.IDs)

\* C13: a forced write made from a valid chain carries a revision of
\* generation 1 or more and a chain that does not go below generation 1
\* (Start >= len(IDs)).
C13_PositiveGenerations ==
    (last.op \in WriteOps /\ ValidChain(last.pre))
        => \A k \in DOMAIN LastWrites :
               /\ RevGeneration(LastWrites[k].rev) >= 1
               /\ LastWrites[k].revisions.Start >= Len(LastWrites[k].revisions.IDs)

C13_Witness ==
    /\ TrashedCreate
    /\ last.pre = Ctx("1-aaa", 1, <<"aaa">>)
    /\ Len(LastWrites) = 1
    /\ LastWrites[1].rev = "0-e1"
    /\ LastWrites[1].revisions = [Start |-> 0, IDs |-> <<"e1">>]

C15_CreateWritesThenEvent ==
    (Forcing /\ last.op = "CreateNamedFileDoc" /\ ~TrashedCreate)
        => LET doc == last.args[1] IN
           /\ Cur = last.pre
           /\ last.ret \in {NoErr, "errPath", "errCouch"}
           /\ last.ret = NoErr
                  => last.effects = <<ForcedWrite(doc, last.pre, NoErr),
                                      RTEvent("created", SetRev(doc, last.pre.Rev), Nil)>>
           /\ last.ret = "errPath" => last.effects = <<>>
           /\ last.ret = "errCouch"
                  => last.effects = <<ForcedWrite(doc, last.pre, "errCouch")>>

C15_Witness ==
    /\ last.op = "CreateNamedFileDoc"
    /\ last.args = <<FileDoc("file1", FALSE)>>
    /\ last.pre = Ctx("2-bbb", 2, <<"bbb", "aaa">>)
    /\ last.ret = NoErr
    /\ Len(last.effects) = 2
    /\ last.effects[2].verb = "created"

\* C16: CreateNamedDirDoc by an indexer with a context writes the directory
\* with the forced revision and chain, then sends a "created" event.
C16_DirCreatedEvent ==
    (Forcing /\ last.op = "CreateNamedDirDoc" /\ last.ret = NoErr)
        => /\ Len(LastWrites) = 1
           /\ LastWrites[1].rev = last.pre.Rev
           /\ LastWrites[1].revisions = last.pre.Revisions
           /\ last.effects[Len(last.effects)].k = "event"
           /\ last.effects[Len(last.effects)].verb = "created"

C16_Witness ==
    /\ Forcing
    /\ last.op = "CreateNamedDirDoc"
    /\ last.ret = NoErr
    /\ last.effects[Len(last.effects)] =
           RTEvent("updated", SetRev(last.args[1], last.pre.Rev), Nil)

\* the most recent call is an update, of a file or of a directory, by an
\* indexer with a context
ForcedUpdate == Forcing /\ last.op \in {"UpdateFileDoc", "UpdateDirDoc"}

\* the indexer of the most recent call was made with a SharedRef
HasShared == ix[last.inst].shared

\* C17, as stated: a forced update that succeeds makes the forced write,
\* then the update of the SharedRef with the chain written, then sends one
\* "updated" event with the new document and the old one if there is one.
C17_WriteSharedEvent ==
    (ForcedUpdate /\ last.ret = NoErr)
        => last.effects =
               <<ForcedWrite(last.args[2], last.pre, NoErr),
                 SharedUpdate(HasShared, last.pre.Revisions, NoErr),
                 RTEvent("updated", SetRev(last.args[2], last.pre.Rev), last.args[1])>>

\* C17, amended: a forced update that succeeds makes the forced write with
\* the target revision, then the update of the SharedRef with the chain
\* written -- a step UpdateFileDoc leaves out when the indexer has no
\* SharedRef --, then sends one "updated" event with the new document and
\* the old one if there is one.
C17_WriteSharedIfAnyEvent ==
    (ForcedUpdate /\ last.ret = NoErr)
        => last.effects =
               <<ForcedWrite(last.args[2], last.pre, NoErr)>>
               \o (IF last.op = "UpdateFileDoc" /\ ~HasShared THEN <<>>
                   ELSE <<SharedUpdate(HasShared, last.pre.Revisions, NoErr)>>)
               \o <<RTEvent("updated", SetRev(last.args[2], last.pre.Rev), last.args[1])>>

C17_Witness ==
    /\ last.op = "UpdateDirDoc"
    /\ last.args = <<DirDoc("dir1"), DirDoc("dir1")>>
    /\ last.pre = Ctx("2-bbb", 2, <<"bbb", "aaa">>)
    /\ last.ret = NoErr
    /\ Len(last.effects) = 3
    /\ last.effects[3].olddoc = DirDoc("dir1")

\* the updates of the SharedRef the most recent call made
LastShared == SelectSeq(last.effects, LAMBDA e : e.k = "shared")

\* the most recent call is a forced write of a file or a directory that is
\* passed on to UpdateFileShared
ForcedUpdateOrDir ==
    Forcing /\ last.op \in {"UpdateFileDoc", "UpdateDirDoc", "CreateNamedDirDoc"}

\* C18, as stated: after a forced update that succeeds the SharedRef has
\* been updated with the chain that was written, however the indexer was
\* made.
C18_SharedAlwaysUpdated ==
    (ForcedUpdateOrDir /\ last.ret = NoErr)
        => /\ Len(LastShared) = 1
           /\ LastShared[1].revisions = LastWrites[1].revisions

\* C18, amended: after a forced update that succeeds, UpdateFileShared has
\* been called once with the chain that was written when the indexer was
\* made with a SharedRef, and for a directory also when it was made without
\* one (the nil pointer is passed on); UpdateFileDoc of an indexer made
\* without a SharedRef succeeds with no update of the SharedRef.
C18_SharedUpdatedIfAny ==
    (ForcedUpdateOrDir /\ last.ret = NoErr)
        => IF last.op = "UpdateFileDoc" /\ ~HasShared
           THEN LastShared = <<>>
           ELSE /\ Len(LastShared) = 1
                /\ Len(LastWrites) = 1
                /\ LastShared[1].ref = HasShared
                /\ LastShared[1].revisions = LastWrites[1].revisions
                /\ LastShared[1].err = NoErr
                /\ last.effects[2] = LastShared[1]

C18_Witness ==
    /\ last.op = "UpdateFileDoc"
    /\ Forcing
    /\ ~HasShared
    /\ last.ret = NoErr
    /\ Len(LastWrites) = 1
    /\ LastShared = <<>>

\* C19: when the update of the SharedRef fails after the forced write, the
\* update returns that error and sends no event; an indexer made with a
\* SharedRef returns success only after an update of the SharedRef, with
\* the chain written, that succeeded.
C19_SharedFailureReturned ==
    ForcedUpdateOrDir
        => /\ \A k \in DOMAIN last.effects :
                  (last.effects[k].k = "shared" /\ last.effects[k].err # NoErr)
                      => /\ last.ret = last.effects[k].err
                         /\ k = Len(last.effects)
                         /\ \A j \in DOMAIN last.effects : last.effects[j].k # "event"
           /\ last.ret = NoErr
                  => \A k \in DOMAIN LastShared : LastShared[k].err = NoErr
           /\ (last.ret = NoErr /\ HasShared)
                  => /\ Len(LastShared) = 1
                     /\ LastShared[1].revisions = LastWrites[1].revisions

C19_Witness ==
    /\ last.op = "UpdateFileDoc"
    /\ Forcing
    /\ last.ret = "errShared"
    /\ Len(last.effects) = 2
    /\ last.effects[1].k = "write"
    /\ last.effects[2] = SharedUpdate(TRUE, last.pre.Revisions, "errShared")

\* C20: CreateNamedFileDoc, UpdateFileDoc and UpdateDirDoc make one forced
\* write at most, and when it fails they return its error and do nothing
\* more: no second write, no update of the SharedRef, no event.
C20_WriteFailureReturned ==
    (Forcing /\ last.op \in {"CreateNamedFileDoc", "UpdateFileDoc", "UpdateDirDoc"})
        => /\ Len(LastWrites) <= 1
           /\ \A k \in DOMAIN LastWrites :
                  LastWrites[k].err # NoErr
                      => /\ last.ret = LastWrites[k].err
                         /\ last.effects = <<LastWrites[k]>>

C20_Witness ==
    /\ TrashedCreate
    /\ last.pre = Ctx("2-bbb", 2, <<"bbb", "aaa">>)
    /\ last.ret = "errCouch"
    /\ Len(last.effects) = 1
    /\ last.effects[1].err = "errCouch"
    /\ Cur = last.pre

(***************************************************************************)
(* The refused and the proxied methods (SpecIndexer).                      *)
(***************************************************************************)
\* C21: with a context, CreateFileDoc, CreateDirDoc, DeleteDirDoc,
\* DeleteDirDocAndContent, BatchDelete, InitIndex, CheckIndexIntegrity,
\* CheckTreeIntegrity and BuildTree return ErrInternalServerError, call
\* nothing of the wrapped indexer and leave the context as it was.
C21_RefusedWithContext ==
    (last.op \in RefusedOps /\ last.pre # Nil)
        => /\ last.ret = ErrInternalServerError
           /\ \A k \in DOMAIN last.effects : last.effects[k].k # "call"
           /\ last.effects = <<>>
           /\ Cur = last.pre

C21_Witness ==
    /\ last.op = "DeleteDirDocAndContent"
    /\ last.pre = Ctx("2-bbb", 2, <<"bbb", "aaa">>)
    /\ last.ret = ErrInternalServerError
    /\ last.effects = <<>>
    /\ Cur = Ctx("2-bbb", 2, <<"bbb", "aaa">>)

\* the lookups, the usage statistics and the directory listings
ReadOps ==
    {"DiskUsage", "FilesUsage", "VersionsUsage", "TrashUsage",
     "DirByID", "DirByPath", "FileByID", "FileByPath", "FilePath",
     "DirOrFileByID", "DirOrFileByPath",
     "DirIterator", "DirBatch", "DirLength", "DirChildExists"}

\* C22: the lookups, the usage statistics and the directory listings call
\* the method of the same name of the wrapped indexer and return its
\* result, with a context or without, and leave the context as it was.
C22_ReadsDelegate ==
    last.op \in ReadOps
        => /\ last.effects = <<IndexerCall(last.op, last.args, last.ret)>>
           /\ last.ret \in Results
           /\ Cur = last.pre

C22_Witness ==
    /\ last.op = "DirByPath"
    /\ last.pre = Ctx("2-bbb", 2, <<"bbb", "aaa">>)
    /\ last.ret = "errIndexer"
    /\ last.effects = <<IndexerCall("DirByPath", <<>>, "errIndexer")>>
    /\ Cur = last.pre

(***************************************************************************)
(* CreateBogusPrevRev and IncrementRevision.                               *)
(***************************************************************************)
\* C23: CreateBogusPrevRev on a context adds one entry, the id it drew,
\* after the last entry of the chain: the target revision, Start and every
\* entry there was, at its place, are unchanged, and the chain is longer by
\* one.
C23_BogusAtTail ==
    (last.op = "CreateBogusPrevRev" /\ last.pre # Nil)
        => /\ Cur # Nil
           /\ Cur.Rev = last.pre.Rev
           /\ Cur.Revisions.Start = last.pre.Revisions.Start
           /\ Len(Cur.Revisions.IDs) = Len(last.pre.Revisions.IDs) + 1
           /\ \A k \in DOMAIN last.pre.Revisions.IDs :
                  Cur.Revisions.IDs[k] = last.pre.Revisions.IDs[k]
           /\ Cur.Revisions.IDs[Len(Cur.Revisions.IDs)] = last.rand

C23_Witness ==
    /\ last.op = "CreateBogusPrevRev"
    /\ last.pre = Ctx("2-bbb", 2, <<"bbb", "aaa">>)
    /\ Cur = Ctx("2-bbb", 2, <<"bbb", "aaa", "e1">>)

Alone(s, op, args, rand) ==
    IF op = "StashRevision"
    THEN {Out(StashRevision(s.bulkRevs, args[1]).b,
              StashRevision(s.bulkRevs, args[1]).ret, <<>>)}
    ELSE IF op = "UnstashRevision"
    THEN {Out(UnstashRevision(s.bulkRevs, args[1]), "", <<>>)}
    ELSE IF op = "CreateNamedFileDoc"
    THEN {CreateNamedFileDoc(s, args[1], in) :
              in \in {x \in CreateInputs(s, args[1]) : x.rand = rand}}
    ELSE IF op = "UpdateFileDoc"
    THEN {UpdateFileDoc(s, args[1], args[2], in) :
              in \in UpdateInputs(s, {"none", "write", "path", "shared", "oldpath"})}
    ELSE {}

\* C25: when two changes are processed at the same time, each through its
\* own indexer made with its own context, the two indexers never hold a
\* pointer to the same context, and a call of one indexer finds the
\* context its own last call left, has the outcome (context, result, forced
\* writes) it has when that indexer runs alone, and leaves the context and
\* the stash of the other indexer as they were.
C25_SingleOwner ==
    [][\A i \in DOMAIN ix :
          last'.inst = i
              => /\ \A j \in DOMAIN ix \ {i} : ix[i].at = 0 \/ ix[j].at # ix[i].at
                 /\ last'.pre = ix[i].bulkRevs
                 /\ Out(ix'[i].bulkRevs, last'.ret, last'.effects)
                        \in Alone(ix[i], last'.op, last'.args, last'.rand)
                 /\ \A j \in DOMAIN ix \ {i} :
                        /\ ix'[j] = ix[j]
                        /\ stash'[j] = stash[j]]_vars

C25_Witness ==
    /\ DOMAIN ix = {1, 2}
    /\ stash[1] = "bbb"
    /\ ix[1].bulkRevs = Ctx("1-aaa", 1, <<"aaa">>)
    /\ last.inst = 2
    /\ last.op = "UpdateFileDoc"
    /\ last.ret = NoErr
    /\ last.pre = Ctx("3-ccc", 3, <<"ccc", "bbb", "aaa">>)
    /\ written = <<[by |-> 2, rev |-> "3-ccc", trashed |-> FALSE]>>

(***************************************************************************)
(* The rate limiter (SpecLimits).  done is the call the last step          *)
(* completed and hist[key] the calls of Increment on the key since its     *)
(* counter was made, in the order the counter served them, each with what  *)
(* its check returns.                                                      *)
(***************************************************************************)
\* the last step completed a check whose Increment returned a value
Counted == done.op = "CheckRateLimit" /\ done.err \notin {"panic", "errRedis"}

\* C26: a check returns ErrRateLimitReached exactly when it finds the
\* counter under the limit and brings it to the limit, ErrRateLimitExceeded
\* when the counter was at the limit or over before the check, and nil
\* before that.
C26_DocumentedErrors ==
    Counted
        => LET limit  == done.limit
               before == done.val - 1
           IN  /\ (done.err = ErrRateLimitReached)
                      <=> (before < limit /\ done.val = limit)
               /\ before >= limit => done.err = ErrRateLimitExceeded
               /\ done.val < limit => done.err = NoErr

C26_Witness ==
    /\ configs = configsAtLoad
    /\ done = Returned(SendHintByMail, "bob.cozy", 2, NoErr, FALSE, 2)
    /\ done.err = NoErr
    /\ hist[KeyOf(configs[SendHintByMail], "bob.cozy")] =
           <<Returned(SendHintByMail, "bob.cozy", 1, NoErr, TRUE, 2),
             Returned(SendHintByMail, "bob.cozy", 2, NoErr, FALSE, 2)>>

\* the checks of a key that return ErrRateLimitReached since its counter
\* was made
ReachedIn(key) ==
    {k \in DOMAIN hist[key] : hist[key][k].err = ErrRateLimitReached}

\* C27, as stated: between two deletions of the counter of a key, one check
\* returns ErrRateLimitReached and every check that comes after it
\* returns ErrRateLimitExceeded.
C27_ReachedOnceThenExceeded ==
    \A key \in Keys :
        /\ Cardinality(ReachedIn(key)) <= 1
        /\ \A j, k \in DOMAIN hist[key] :
               (j < k /\ hist[key][j].err = ErrRateLimitReached)
                   => hist[key][k].err = ErrRateLimitExceeded

\* C27, amended: between two deletions of the counter of a key, of the
\* checks made with the same limit one at most returns
\* ErrRateLimitReached, also when they run at the same time, and every
\* such check the counter serves after that one returns
\* ErrRateLimitExceeded, or the error of the counter when the call to redis
\* fails.
C27_ReachedOnceThenExceededOrError ==
    \A key \in Keys :
        \A j, k \in DOMAIN hist[key] :
            (j < k /\ hist[key][j].limit = hist[key][k].limit
                   /\ hist[key][j].err = ErrRateLimitReached)
                => \/ hist[key][k].err = ErrRateLimitExceeded
                   \/ /\ hist[key][k].err = "errRedis"
                      /\ counter = "redis"

C27_Witness ==
    /\ counter = "mem"
    /\ chk[1].pc = "ret"
    /\ chk[1].ct = AuthType
    /\ chk[1].val = 1
    /\ chk[1].cfg.Limit = 0
    /\ hist[KeyOf(configs[AuthType], "alice.cozy")] =
           <<Returned(AuthType, "alice.cozy", 1, NoErr, TRUE, 0),
             Returned(AuthType, "alice.cozy", 2, NoErr, FALSE, 0)>>
    /\ hist[KeyOf(configs[AuthType], "alice.cozy")][1].err = ErrRateLimitReached
    /\ done = Returned(AuthType, "alice.cozy", 2, NoErr, FALSE, 0)
    /\ done.err = ErrRateLimitExceeded

\* C28: ResetCounter leaves no counter for the key, so that the next
\* Increment of the key returns 1 and the check nil, and leaves the
\* counters of the other keys as they were.
C28_ResetToZero ==
    [][done'.op = "ResetCounter"
          => vals' = [vals EXCEPT ![KeyOf(configs[done'.ct], done'.name)] = Nil]]_vars

\* ResetCounter has returned, the DEL of redis having failed: the counter
\* of the key is as it was, and the caller is told nothing
C28_Witness ==
    /\ counter = "redis"
    /\ done.op = "ResetCounter"
    /\ done.ct = SendHintByMail
    /\ done.store = "errRedis"
    /\ done.err = ""
    /\ vals[KeyOf(configs[SendHintByMail], "bob.cozy")] # Nil
    /\ vals[KeyOf(configs[SendHintByMail], "bob.cozy")].val = 2

(***************************************************************************)
(* The invitations (SpecInvitations).                                      *)
(***************************************************************************)
\* C29: when the sharing is not owned by the instance, or its members are
\* not one more than its credentials, SendInvitations returns
\* ErrInvalidSharing, having sent nothing, changed no member and saved
\* nothing; it returns that error in no other case.
C29_InvalidSharingRefused ==
    inv.pc = "returned"
        => /\ (~inv.pre.Owner \/ Len(inv.pre.Members) # Len(inv.pre.Credentials) + 1)
                  <=> inv.ret = ErrInvalidSharing
           /\ inv.ret = ErrInvalidSharing
                  => /\ sent = <<>>
                     /\ saved = <<>>
                     /\ sharing = inv.pre

C29_Witness ==
    /\ inv.pc = "returned"
    /\ inv.ret = ErrInvalidSharing
    /\ sharing.Owner
    /\ Len(sharing.Credentials) = 1
    /\ sharing.Members[2].Status = MemberStatusMailNotSent
    /\ sharing.Members[2].Email # ""
    /\ sent = <<>>
    /\ saved = <<>>

(***************************************************************************)
(* The realtime events (SpecIndexer).                                      *)
(***************************************************************************)
\* the positions of the realtime events among the effects of the most
\* recent call
EventsAt == {k \in DOMAIN last.effects : last.effects[k].k = "event"}

\* C31: every realtime event of a call comes after a forced write of the
\* same document that succeeded in the same call, a call sends one event at
\* most, and CreateNamedFileDoc of a trashed document sends none.
C31_EventsFollowStorage ==
    /\ \A k \in EventsAt :
          \E j \in 1 .. (k - 1) :
              /\ last.effects[j].k = "write"
              /\ last.effects[j].err = NoErr
              /\ last.effects[j].id = last.effects[k].doc.DocID
    /\ Cardinality(EventsAt) <= 1
    /\ TrashedCreate => EventsAt = {}

C31_Witness ==
    /\ Forcing
    /\ last.op = "UpdateDirDoc"
    /\ last.ret = NoErr
    /\ EventsAt = {3}
    /\ last.effects[1] = ForcedWrite(last.args[2], last.pre, NoErr)
    /\ last.effects[3].doc.DocID = last.args[2].DocID

(***************************************************************************)
(* The cursor operations without a context.                                *)
(***************************************************************************)
CursorOps == {"IncrementRevision", "StashRevision", "UnstashRevision",
              "CreateBogusPrevRev", "WillResolveConflict"}

\* C32: a cursor operation of an indexer without a context returns without
\* a crash and leaves the context absent.
C32_CursorOpsSafeWithoutContext ==
    (last.op \in CursorOps /\ last.pre = Nil)
        => /\ last.ret # "panic"
           /\ Cur = Nil

C32_Witness ==
    /\ last.op = "WillResolveConflict"
    /\ last.pre = Nil
    /\ last.args[2] # <<>>
    /\ RevGeneration(last.args[2][Len(last.args[2])]) # RevGeneration(last.args[1])
    /\ last.ret = "panic"

(***************************************************************************)
(* The in-memory counter and its mutex (SpecLimits).                       *)
(***************************************************************************)
\* a step deletes an entry of the map of the in-memory counter: Reset or
\* the cleaner
Deletes == counter = "mem" /\ \E k \in Keys : vals[k] # Nil /\ vals'[k] = Nil

\* C33: the map of the in-memory counter is accessed under the mutex only:
\* no entry is deleted, by Reset or by the cleaner, while a goroutine is
\* inside Increment with the mutex held.
C33_MapUnderMutex == [][Deletes => mu = 0]_vars

C33_Witness ==
    /\ counter = "mem"
    /\ done.op = "ResetCounter"
    /\ mu = 1
    /\ chk[1].pc = "add"
    /\ vals[KeyOf(chk[1].cfg, chk[1].name)] = Nil

(***************************************************************************)
(* The window of the in-memory counter (SpecLimits).                       *)
(***************************************************************************)
\* goroutine p returns from Increment in this step
Returns(p) == chk[p].pc = "read" /\ chk'[p].pc = "ret"

\* the Increment of goroutine p began after the expiry of the entry it
\* counts in
CalledAfterExpiry(p) == chk[p].late

\* C34: the expiry of an entry of the in-memory counter is never changed
\* once set, and an Increment called after the expiry of the entry of its
\* key starts a new window and returns 1.
C34_FixedWindow ==
    [][counter = "mem"
          => /\ \A k \in Keys :
                   (vals[k] # Nil /\ vals'[k] # Nil) => vals'[k].exp = vals[k].exp
             /\ \A p \in Procs :
                   (Returns(p) /\ CalledAfterExpiry(p)) => chk'[p].val = 1]_vars

C34_Witness ==
    /\ counter = "mem"
    /\ chk[1].pc = "read"
    /\ ~chk[1].fresh
    /\ chk[1].late
    /\ now = 2
    /\ vals[KeyOf(chk[1].cfg, chk[1].name)] = [val |-> 2, exp |-> 1]

(***************************************************************************)
(* getCounter (SpecCounter).                                               *)
(***************************************************************************)
\* C35: whatever the number of goroutines inside getCounter, one Counter
\* at most is ever made and every call returns that one.
C35_LazySingleton ==
    /\ made <= 1
    /\ \A p \in Callers :
          getter[p].pc = "returned"
              => /\ getter[p].ret # Nil
                 /\ getter[p].ret = globalCounter
    /\ \A p, q \in Callers :
          (getter[p].ret # Nil /\ getter[q].ret # Nil)
              => getter[p].ret = getter[q].ret

C35_Witness ==
    /\ made = 1
    /\ getter[1].pc = "returned"
    /\ getter[2].pc = "returned"
    /\ getter[1].ret = getter[2].ret
    /\ getter[1].ret = globalCounter
    /\ getter[3].pc = "check"

(***************************************************************************)
(* The storage of OAuth states (SpecStates).                               *)
(***************************************************************************)
\* C36: Find returns the holder Add stored under the reference, its expiry
\* the time of Add plus stateTTL, as long as the time is not past that
\* expiry; past it, and for a reference that was never added, Find returns
\* nil, and after a Find that returned nil no holder is kept under the
\* reference.
C36_FindWhileNotExpired ==
    /\ lookup.op = "Add"
           => /\ lookup.ret.ExpiresAt = clock + stateTTL
              /\ store[lookup.ref] = lookup.ret
    /\ lookup.op = "Find"
           => /\ lookup.ret = IF issued[lookup.ref] = Nil THEN Nil
                             ELSE IF clock > issued[lookup.ref].ExpiresAt THEN Nil
                             ELSE issued[lookup.ref]
              /\ lookup.ret = Nil => store[lookup.ref] = Nil
    /\ \A r \in Refs :
          store[r] = Nil \/ store[r] = issued[r]

C36_Witness ==
    /\ lookup.op = "Find"
    /\ lookup.ret = Nil
    /\ issued[lookup.ref] # Nil
    /\ clock = issued[lookup.ref].ExpiresAt + 1
    /\ store[lookup.ref] = Nil
    /\ \E r \in Refs : store[r] # Nil /\ store[r].ExpiresAt >= clock

(***************************************************************************)
(* The invitations sent at the same time (SpecInvitations).                *)
(***************************************************************************)
\* member k was to be invited by the call
ToInvite(k) == k # 1 /\ inv.pre.Members[k].Status = MemberStatusMailNotSent

\* a shortcut or a mail was sent to member k with success
SentTo(k) == \E n \in DOMAIN sent : sent[n].to = k /\ sent[n].err = NoErr

\* C37: SendInvitations on a valid sharing changes a member only from
\* mail-not-sent to pending and only after a shortcut or a mail to it was
\* sent with success; the owner and the members in another status are left
\* alone; nothing is saved before every send is over, then the document is
\* saved once, as it is then, also when sends failed, and the call returns
\* the error of the save if it failed and else the error of the sends.
C37_StatusSaveAndReturn ==
    (inv.pc # "idle" /\ Valid(inv.pre))
        => /\ \A k \in DOMAIN sharing.Members :
                 sharing.Members[k] # inv.pre.Members[k]
                     => /\ ToInvite(k)
                        /\ SentTo(k)
                        /\ sharing.Members[k] =
                               [inv.pre.Members[k] EXCEPT
                                   !.Status = MemberStatusPendingInvitation]
           /\ inv.pc = "sending" => saved = <<>>
           /\ inv.pc = "returned"
                 => /\ \A k \in DOMAIN inv.go : inv.go[k] \in {"skip", "done"}
                    /\ Len(saved) = 1
                    /\ saved[1].doc = sharing
                    /\ inv.ret =
                          IF saved[1].err # NoErr THEN saved[1].err
                          ELSE IF \E k \in DOMAIN sharing.Members :
                                     /\ ToInvite(k)
                                     /\ sharing.Members[k].Status
                                            = MemberStatusMailNotSent
                               THEN ErrInvitationNotSent
                               ELSE NoErr

C37_Witness ==
    /\ inv.pc = "returned"
    /\ ToInvite(2)
    /\ ToInvite(3)
    /\ sharing.Members[2].Status = MemberStatusMailNotSent
    /\ sharing.Members[3].Status = MemberStatusPendingInvitation
    /\ sent = <<[to |-> 3, by |-> "shortcut", err |-> "errShortcut"],
                [to |-> 2, by |-> "mail", err |-> "errMail"],
                [to |-> 3, by |-> "mail", err |-> NoErr]>>
    /\ Len(saved) = 1
    /\ saved[1].err = NoErr
    /\ inv.ret = ErrInvitationNotSent

(***************************************************************************)
(* The invitations of a recipient (SpecMembers).                           *)
(***************************************************************************)
\* the shortcut of member number n of the list was sent with success
ShortcutSent(n) ==
    \E k \in DOMAIN sent :
        sent[k] = [to |-> n, by |-> "shortcut", err |-> NoErr]

\* C38: in SendInvitationsToMembers a member with an instance whose
\* shortcut was sent with success gets no mail, does not make the call
\* return ErrInvitationNotSent, and goes from mail-not-sent to pending.
C38_ShortcutCountsAsInvited ==
    \A n \in DOMAIN inv.go :
        (inv.pc \in {"inviting", "returned"} /\ ShortcutSent(n))
            => /\ \A k \in DOMAIN sent : ~(sent[k].to = n /\ sent[k].by = "mail")
               /\ inv.go[n].at = "done"
               /\ inv.pre.Members[n + 1].Status = MemberStatusMailNotSent
                      => sharing.Members[n + 1].Status
                             = MemberStatusPendingInvitation

C38_Witness ==
    /\ inv.pc = "returned"
    /\ inv.ret = ErrInvitationNotSent
    /\ inv.go[1].m.Instance # ""
    /\ inv.go[1].m.Email = ""
    /\ sent = <<[to |-> 1, by |-> "shortcut", err |-> NoErr]>>
    /\ inv.go[1].at = "failed"
    /\ inv.pre.Members[2].Status = MemberStatusMailNotSent
    /\ sharing.Members[2].Status = MemberStatusMailNotSent
    /\ saved = <<>>

=============================================================================
